---- MODULE Spec2Model ----
(***************************************************************************)
(* A2A protocol core of weekly-preview-assistant: the agent servers' task  *)
(* lifecycle (send-message / get-task over an in-memory task store) and    *)
(* the transport client's retry loop.                                      *)
(***************************************************************************)
EXTENDS Integers, Sequences, FiniteSets, TLC

VARIABLES
    active,     \* the agent servers that are running (each owns _tasks[a])
    _tasks,     \* per agent: the task ids that are keys of its dict _tasks
    nextId,     \* the next fresh task id (generate_id)
    threads,    \* the request threads that serve send-message requests
    handler,    \* per request thread: position and locals of send_message()
    heap,       \* task_id -> the Task dict object (shared by reference)
    returned,   \* task_id -> the agent and the Task of the send-message response
    getResp,    \* the latest get-task response
    client,     \* the transport client's send_message() call
    orch,       \* the OrchestratorAgent and its generate_weekly_preview() call
    served,     \* per port: the Agent Card fetch_agent_card gets there (or none)
    files,      \* output/summaries: file path -> contents
    saved,      \* the save_summary calls made so far, in order
    now,        \* datetime.now(), in seconds
    logdir,     \* the state of LOG_DIR (src/logs) on the file system
    call        \* a call of a library function: its input, position and result

vars == <<active, threads, _tasks, heap, nextId, handler, returned, getResp, client,
          orch, served, files, saved, now, logdir, call>>

WorkflowVars == <<orch, served, files, saved, now>>

\* ------------------------------------------------------------------ bounds
MaxTasks == 2           \* tasks created in one run (size of the id pool)
MaxRetriesBound == 3    \* largest max_retries a client call is given

\* ------------------------------------------------------------- data model
\* No library call is being traced.
NoCall == [fn |-> "none"]

Agents == {"calendar", "formatter", "telegram", "orchestrator"}
Handlers == {"h1", "h2"}    \* request threads of a (threaded) Flask server

\* TaskState (protocol.py)
SUBMITTED == "submitted"
WORKING == "working"
COMPLETED == "completed"
FAILED == "failed"
CANCELED == "canceled"
INPUT_REQUIRED == "input_required"
REJECTED == "rejected"
AUTH_REQUIRED == "auth_required"
TaskState == {SUBMITTED, WORKING, COMPLETED, FAILED, CANCELED,
              INPUT_REQUIRED, REJECTED, AUTH_REQUIRED}
TERMINAL_STATES == {COMPLETED, FAILED, CANCELED, REJECTED}

\* Role (protocol.py)
Role == {"user", "agent"}

\* JSON values are records that say which keys are present.  The value of
\* the "parameters" key: JSON null, a non-object (string, list, number) or
\* an object, of which only the "text" entry is kept ("" when absent).
ParamsNull == [kind |-> "null", text |-> ""]
ParamsScalar == [kind |-> "scalar", text |-> ""]
ParamsDict(text) == [kind |-> "dict", text |-> text]

\* The payload of a data Part.
NoData == [isDict |-> FALSE, keys |-> {}, action |-> "", parameters |-> ParamsNull]
ActionData(keys, action, parameters) ==
    [isDict |-> TRUE, keys |-> keys, action |-> action, parameters |-> parameters]

\* text_part / data_part (protocol.py) and malformed parts off the wire.
text_part == [isDict |-> TRUE, type |-> "text", fields |-> {"type", "text"}, data |-> NoData]
data_part(data) ==
    [isDict |-> TRUE, type |-> "data", fields |-> {"type", "data", "media_type"}, data |-> data]
RawPart(type, fields) == [isDict |-> TRUE, type |-> type, fields |-> fields, data |-> NoData]
NonDictPart == [isDict |-> FALSE, type |-> "", fields |-> {}, data |-> NoData]

\* A Message off the wire.
RawMessage(fields, mid, role, isList, parts, ctx) ==
    [isDict |-> TRUE, fields |-> fields, message_id |-> mid, role |-> role,
     partsIsList |-> isList, parts |-> parts, context_id |-> ctx]
NonDictMessage ==
    [isDict |-> FALSE, fields |-> {}, message_id |-> "", role |-> "",
     partsIsList |-> FALSE, parts |-> <<>>, context_id |-> ""]

\* create_message(Role.USER, parts, context_id=ctx)
create_message(mid, parts, ctx) ==
    RawMessage({"message_id", "role", "parts"} \cup (IF ctx # "" THEN {"context_id"} ELSE {}),
               mid, "user", TRUE, parts, ctx)

\* A SendMessageRequest off the wire: msgTruthy says whether request.get("message")
\* is truthy (present, not null, not empty).
RawRequest(isDict, msgTruthy, message) ==
    [isDict |-> isDict, msgTruthy |-> msgTruthy, message |-> message]
create_send_message_request(message) == RawRequest(TRUE, TRUE, message)


\* A role that is a JSON list or object (unhashable in Python), not a string.
ListRole == "['user']"
\* A TaskStatus state that is a JSON list or object.
ListState == "['completed']"

\* A TaskStatus off the wire: kind says what JSON value it is ("dict", "null",
\* or "scalar" for a non-empty string or number), fields are its keys.
RawTaskStatus(kind, fields, state) == [kind |-> kind, fields |-> fields, state |-> state]
\* The keys create_task_status writes: message only when one is given.
TaskStatusDict(state, hasMessage) ==
    RawTaskStatus("dict", {"state", "timestamp"} \cup (IF hasMessage THEN {"message"} ELSE {}), state)

\* A Task off the wire.
RawTask(isDict, fields, status) == [isDict |-> isDict, fields |-> fields, status |-> status]
\* The keys create_task writes.
TaskDict(status) ==
    RawTask(TRUE, {"id", "context_id", "status", "artifacts", "history", "metadata"}, status)

\* An entry of a JSON list that should hold objects: kind is "dict", "string",
\* "list", "number" or "null"; fields are the keys of a dict (the substrings of
\* a string, the elements of a list), blank the keys whose value is falsy.
RawEntry(kind, fields, blank) == [kind |-> kind, fields |-> fields, blank |-> blank]
\* A JSON value that should be a list of objects.
RawList(isList, entries) == [isList |-> isList, entries |-> entries]

\* An AgentCard off the wire: fields are the keys present, blank the keys
\* whose value is falsy (empty string, null).
RawCard(isDict, name, fields, blank, interfaces, skills) ==
    [isDict |-> isDict, name |-> name, fields |-> fields, blank |-> blank,
     supported_interfaces |-> interfaces, skills |-> skills]
NonDictCard == RawCard(FALSE, "", {}, {}, RawList(FALSE, <<>>), RawList(FALSE, <<>>))

\* create_skill (protocol.py): examples only when given.
create_skill(id, hasExamples) ==
    RawEntry("dict", {"id", "name", "description", "tags"}
                     \cup (IF hasExamples THEN {"examples"} ELSE {}),
             IF id = "" THEN {"id"} ELSE {})

\* create_agent_card (protocol.py): every key is written; an empty argument
\* leaves its key with a falsy value.
create_agent_card(name, description, url, version, skills) ==
    RawCard(TRUE, name,
            {"name", "description", "version", "supported_interfaces", "capabilities",
             "default_input_modes", "default_output_modes", "skills"},
            (IF name = "" THEN {"name"} ELSE {}) \cup
            (IF description = "" THEN {"description"} ELSE {}) \cup
            (IF version = "" THEN {"version"} ELSE {}),
            RawList(TRUE, << RawEntry("dict", {"url", "protocol_binding", "protocol_version"},
                                      IF url = "" THEN {"url"} ELSE {}) >>),
            RawList(TRUE, skills))


\* ---------------------------------------------------------------- validator
\* The (is_valid, error_description) pair a validate_* function returns; the
\* description is kept as a sequence of pieces in which every field name is a
\* piece of its own.  raised names the exception when the function raises
\* instead of returning.
Ok == [valid |-> TRUE, err |-> <<>>, raised |-> ""]
Invalid(err) == [valid |-> FALSE, err |-> err, raised |-> ""]
Raises(exception) == [valid |-> FALSE, err |-> <<>>, raised |-> exception]

\* part.get("type")
part_type(part) == IF "type" \in part.fields THEN part.type ELSE "None"

\* validate_part (validator.py)
validate_part(part) ==
    IF ~part.isDict THEN Invalid(<<"Part must be a dict.">>)
    ELSE IF part_type(part) = "text" THEN
        IF "text" \notin part.fields
        THEN Invalid(<<"TextPart must include '", "text", "' field.">>) ELSE Ok
    ELSE IF part_type(part) = "data" THEN
        IF "data" \notin part.fields
        THEN Invalid(<<"DataPart must include '", "data", "' field.">>) ELSE Ok
    ELSE IF part_type(part) = "file" THEN
        IF "url" \notin part.fields /\ "raw" \notin part.fields
        THEN Invalid(<<"FilePart must include '", "url", "' or '", "raw", "' field.">>) ELSE Ok
    ELSE Invalid(<<"Unknown part ", "type", ": ", part_type(part)>>)

\* The loop over enumerate(parts) in validate_message: the first invalid part
\* from index i on (0-based in the description), or Ok.
RECURSIVE validate_parts_from(_, _)
validate_parts_from(parts, i) ==
    IF i > Len(parts) THEN Ok
    ELSE LET r == validate_part(parts[i]) IN
         IF ~r.valid THEN Invalid(<<"parts[", ToString(i - 1), "]: ">> \o r.err)
         ELSE validate_parts_from(parts, i + 1)

\* validate_message (validator.py): "role not in valid_roles" hashes the role,
\* which raises TypeError for a list or an object.
validate_message(message) ==
    IF ~message.isDict THEN Invalid(<<"Message must be a dict.">>)
    ELSE IF "message_id" \notin message.fields
        THEN Invalid(<<"Message must include '", "message_id", "'.">>)
    ELSE IF "role" \in message.fields /\ message.role = ListRole
        THEN Raises("TypeError")
    ELSE IF "role" \notin message.fields \/ message.role \notin Role
        THEN Invalid(<<"Message '", "role", "' must be one of ", "{'user', 'agent'}", ", got: ",
                       IF "role" \in message.fields THEN message.role ELSE "None">>)
    ELSE IF "parts" \notin message.fields \/ ~message.partsIsList \/ Len(message.parts) = 0
        THEN Invalid(<<"Message '", "parts", "' must be a non-empty list.">>)
    ELSE validate_parts_from(message.parts, 1)

\* validate_task_status (validator.py): "state not in valid_states" hashes the
\* state, which raises TypeError for a list or an object.
validate_task_status(status) ==
    IF status.kind # "dict" THEN Invalid(<<"TaskStatus must be a dict.">>)
    ELSE IF "state" \in status.fields /\ status.state = ListState
        THEN Raises("TypeError")
    ELSE IF "state" \notin status.fields \/ status.state \notin TaskState
        THEN Invalid(<<"TaskStatus '", "state", "' must be one of ", "{...}", ", got: ",
                       IF "state" \in status.fields THEN status.state ELSE "None">>)
    ELSE IF "timestamp" \notin status.fields
        THEN Invalid(<<"TaskStatus must include '", "timestamp", "'.">>)
    ELSE Ok

\* "not status" in validate_task: a missing key, null and an empty dict are falsy.
status_falsy(task) ==
    \/ "status" \notin task.fields
    \/ task.status.kind = "null"
    \/ task.status.kind = "dict" /\ task.status.fields = {}

\* Mutation: context_id is not required.
validate_task_NoContextId(task) ==
    IF ~task.isDict THEN Invalid(<<"Task must be a dict.">>)
    ELSE IF "id" \notin task.fields THEN Invalid(<<"Task must include '", "id", "'.">>)
    ELSE IF status_falsy(task) THEN Invalid(<<"Task must include '", "status", "'.">>)
    ELSE LET r == validate_task_status(task.status) IN
         IF r.raised # "" THEN r
         ELSE IF ~r.valid THEN Invalid(<<"Task ", "status", ": ">> \o r.err)
         ELSE Ok

\* validate_task (validator.py)
validate_task(task) ==
    IF ~task.isDict THEN Invalid(<<"Task must be a dict.">>)
    ELSE IF "id" \notin task.fields THEN Invalid(<<"Task must include '", "id", "'.">>)
    ELSE IF "context_id" \notin task.fields
        THEN Invalid(<<"Task must include '", "context_id", "'.">>)
    ELSE IF status_falsy(task) THEN Invalid(<<"Task must include '", "status", "'.">>)
    ELSE LET r == validate_task_status(task.status) IN
         IF r.raised # "" THEN r
         ELSE IF ~r.valid THEN Invalid(<<"Task ", "status", ": ">> \o r.err)
         ELSE Ok

\* validate_send_message_request (validator.py)
validate_send_message_request(request) ==
    IF ~request.isDict THEN Invalid(<<"SendMessageRequest must be a dict.">>)
    ELSE IF ~request.msgTruthy
        THEN Invalid(<<"SendMessageRequest must include '", "message", "'.">>)
    ELSE validate_message(request.message)

\* The loops over supported_interfaces in validate_agent_card, from entry i and
\* field k on: iface.get(field) raises AttributeError unless iface is a dict.
INTERFACE_FIELDS == <<"url", "protocol_binding", "protocol_version">>
RECURSIVE validate_interfaces_from(_, _, _)
validate_interfaces_from(interfaces, i, k) ==
    IF i > Len(interfaces) THEN Ok
    ELSE IF k > Len(INTERFACE_FIELDS) THEN validate_interfaces_from(interfaces, i + 1, 1)
    ELSE IF interfaces[i].kind # "dict" THEN Raises("AttributeError")
    ELSE IF INTERFACE_FIELDS[k] \notin interfaces[i].fields \ interfaces[i].blank
        THEN Invalid(<<"supported_interfaces[", ToString(i - 1), "] must include '",
                       INTERFACE_FIELDS[k], "'.">>)
    ELSE validate_interfaces_from(interfaces, i, k + 1)

\* The loops over skills in validate_agent_card: "field not in skill" is a key
\* test on a dict, a substring test on a string, a membership test on a list,
\* and raises TypeError on a number or null.
SKILL_FIELDS == <<"id", "name", "description", "tags">>
RECURSIVE validate_skills_from(_, _, _)
validate_skills_from(skills, i, k) ==
    IF i > Len(skills) THEN Ok
    ELSE IF k > Len(SKILL_FIELDS) THEN validate_skills_from(skills, i + 1, 1)
    ELSE IF skills[i].kind \notin {"dict", "string", "list"} THEN Raises("TypeError")
    ELSE IF SKILL_FIELDS[k] \notin skills[i].fields
        THEN Invalid(<<"skills[", ToString(i - 1), "] must include '", SKILL_FIELDS[k], "'.">>)
    ELSE validate_skills_from(skills, i, k + 1)

\* The loop over ("name", "description", "version") in validate_agent_card.
CARD_FIELDS == <<"name", "description", "version">>
RECURSIVE validate_card_fields_from(_, _)
validate_card_fields_from(card, k) ==
    IF k > Len(CARD_FIELDS) THEN Ok
    ELSE IF CARD_FIELDS[k] \notin card.fields \ card.blank
        THEN Invalid(<<"AgentCard must include '", CARD_FIELDS[k], "'.">>)
    ELSE validate_card_fields_from(card, k + 1)

\* validate_agent_card (validator.py)
validate_agent_card(card) ==
    IF ~card.isDict THEN Invalid(<<"AgentCard must be a dict.">>)
    ELSE LET top == validate_card_fields_from(card, 1) IN
    IF ~top.valid THEN top
    ELSE IF \/ "supported_interfaces" \notin card.fields
            \/ ~card.supported_interfaces.isList
            \/ Len(card.supported_interfaces.entries) = 0
        THEN Invalid(<<"AgentCard must include non-empty '", "supported_interfaces", "'.">>)
    ELSE LET ifaces == validate_interfaces_from(card.supported_interfaces.entries, 1, 1) IN
    IF ~ifaces.valid THEN ifaces
    ELSE IF "skills" \notin card.fields \/ ~card.skills.isList
        THEN Invalid(<<"AgentCard must include '", "skills", "' list.">>)
    ELSE validate_skills_from(card.skills.entries, 1, 1)

\* ------------------------------------------------- validator: calls traced
\* e with the keys in S removed.
Strip(e, S) == [e EXCEPT !.fields = @ \ S]

\* An interface and a skill as create_agent_card and create_skill build them.
Interface == RawEntry("dict", {"url", "protocol_binding", "protocol_version"}, {})
Skill == create_skill("fetch_week_events", FALSE)

\* The entities the protocol constructors build from valid (non-empty) inputs.
BuiltParts == {text_part, data_part(ActionData({"action"}, "fetch_week_events", ParamsNull))}
BuiltMessages ==
    {RawMessage({"message_id", "role", "parts"}, "m-1", role, TRUE, parts, "") :
        role \in Role, parts \in {<<text_part>>, <<text_part, data_part(NoData)>>}}
BuiltStatuses == {TaskStatusDict(SUBMITTED, FALSE), TaskStatusDict(COMPLETED, TRUE)}
BuiltTasks == {TaskDict(s) : s \in BuiltStatuses} \cup {TaskDict(TaskStatusDict(WORKING, TRUE))}
BuiltRequests ==
    {create_send_message_request(create_message("m-1", <<text_part>>, ""))}
BuiltCards ==
    {create_agent_card("Calendar Agent", "Fetches events", "http://localhost:5001", "1.0.0", skills) :
        skills \in {<<>>, <<Skill>>, <<Skill, create_skill("format_weekly_preview", TRUE)>>}}

\* A text part without its text.
BadTextPart == RawPart("text", {"type"})

\* Parts given to validate_part: built by text_part / data_part, with keys
\* removed, and malformed ones.
PartInputs ==
    {Strip(p, S) : p \in BuiltParts, S \in SUBSET {"type", "text", "data", "media_type"}}
    \cup {NonDictPart, RawPart("image", {"type"}), RawPart("file", {"type"}),
          RawPart("file", {"type", "url"}), RawPart("file", {"type", "raw"})}

\* Messages given to validate_message.
PartLists ==
    {<<>>, <<text_part>>, <<text_part, data_part(NoData)>>, <<BadTextPart>>,
     <<text_part, BadTextPart>>, <<RawPart("image", {"type"}), BadTextPart>>,
     <<text_part, NonDictPart, BadTextPart>>}
MessageInputs ==
    {RawMessage(F, "m-1", role, isList, parts, "") :
        F \in SUBSET {"message_id", "role", "parts"},
        role \in {"user", "agent", "system", ListRole},
        isList \in BOOLEAN, parts \in PartLists}
    \cup {NonDictMessage}
    \cup {Strip(e, S) : e \in BuiltMessages, S \in SUBSET {"message_id", "role", "parts"}}

\* TaskStatus values given to validate_task_status.
StatusInputs ==
    {RawTaskStatus(kind, F, state) :
        kind \in {"dict", "null", "scalar"},
        F \in SUBSET {"state", "timestamp", "message"},
        state \in {SUBMITTED, COMPLETED, "done", ListState}}
    \cup BuiltStatuses

\* Tasks given to validate_task.
TaskInputs ==
    {RawTask(isDict, F \cup {"artifacts", "history", "metadata"}, status) :
        isDict \in BOOLEAN, F \in SUBSET {"id", "context_id", "status"},
        status \in {TaskStatusDict(SUBMITTED, FALSE), TaskStatusDict(COMPLETED, TRUE),
                    RawTaskStatus("dict", {}, ""), RawTaskStatus("null", {}, ""),
                    RawTaskStatus("scalar", {}, ""), RawTaskStatus("dict", {"state"}, FAILED),
                    RawTaskStatus("dict", {"state", "timestamp"}, ListState)}}
    \cup {Strip(e, {f}) : e \in BuiltTasks, f \in {"id", "context_id", "status"}}
    \cup BuiltTasks
    \cup {Strip(TaskDict(TaskStatusDict(WORKING, TRUE)), S) :
            S \in SUBSET {"artifacts", "history", "metadata"}}

\* Requests given to validate_send_message_request.
RequestInputs ==
    {RawRequest(isDict, truthy, m) :
        isDict \in BOOLEAN, truthy \in BOOLEAN,
        m \in {create_message("m-1", <<text_part>>, ""),
               create_message("m-2", <<text_part, BadTextPart>>, "ctx-1"),
               RawMessage({"message_id", "role", "parts"}, "m-3", ListRole, TRUE, <<text_part>>, ""),
               NonDictMessage}}
    \cup BuiltRequests

\* Agent Cards given to validate_agent_card.
InterfaceLists ==
    {RawList(TRUE, <<Interface>>), RawList(TRUE, <<>>), RawList(FALSE, <<>>),
     RawList(TRUE, <<Strip(Interface, {"url"})>>),
     RawList(TRUE, <<Interface, Strip(Interface, {"protocol_binding"})>>),
     RawList(TRUE, <<Interface, RawEntry("dict", Interface.fields, {"protocol_version"})>>),
     RawList(TRUE, <<Interface, RawEntry("string", {}, {})>>),
     RawList(TRUE, <<RawEntry("null", {}, {})>>)}
SkillLists ==
    {RawList(TRUE, <<>>), RawList(TRUE, <<Skill>>), RawList(FALSE, <<>>),
     RawList(TRUE, <<Skill, create_skill("format_weekly_preview", TRUE)>>),
     RawList(TRUE, <<Strip(Skill, {"id"})>>),
     RawList(TRUE, <<Skill, Strip(Skill, {"tags"})>>),
     RawList(TRUE, <<Skill, Strip(Skill, {"name", "description"})>>),
     RawList(TRUE, <<RawEntry("string", {"id", "name"}, {})>>),
     RawList(TRUE, <<RawEntry("list", {"id", "name", "description", "tags"}, {})>>),
     RawList(TRUE, <<Skill, RawEntry("number", {}, {})>>),
     RawList(TRUE, <<RawEntry("null", {}, {})>>)}
CardKeys ==
    {"name", "description", "version", "supported_interfaces", "capabilities",
     "default_input_modes", "default_output_modes", "skills"}
\* e with field f of entry i of its list l (supported_interfaces or skills) removed.
StripEntry(e, l, i, f) == [e EXCEPT ![l].entries[i].fields = @ \ {f}]

\* The built entities with one key removed, also inside an interface or a skill.
StrippedCards ==
    {Strip(e, {f}) : e \in BuiltCards, f \in CardKeys}
    \cup {StripEntry(e, "supported_interfaces", 1, f) :
            e \in BuiltCards, f \in {"url", "protocol_binding", "protocol_version"}}
    \cup UNION {{StripEntry(e, "skills", k, f) :
                    k \in 1..Len(e.skills.entries),
                    f \in {"id", "name", "description", "tags", "examples"}} : e \in BuiltCards}

CardInputs ==
    {RawCard(TRUE, "Calendar Agent", CardKeys \ S, blank, interfaces, skills) :
        S \in {{}} \cup {{k} : k \in CardKeys} \cup {{"name", "skills"}},
        blank \in {{}, {"name"}, {"description"}, {"version"}},
        interfaces \in InterfaceLists, skills \in SkillLists}
    \cup BuiltCards \cup StrippedCards \cup {NonDictCard}


ValidatorNames ==
    {"validate_part", "validate_message", "validate_task_status", "validate_task",
     "validate_send_message_request", "validate_agent_card"}

\* A call of fn with one argument, before it runs.
Called(fn, input) == [fn |-> fn, input |-> input, pc |-> "called", result |-> Ok]

\* The call after the function has returned result or raised.
Returned(result) ==
    [call EXCEPT !.pc = IF result.raised # "" THEN "raised" ELSE "returned",
                 !.result = result]

\* ------------------------------------------------------ requests on the wire
ActionParams(p) == ActionData({"action", "parameters"}, "fetch_week_events", p)

MsgTextOnly == create_message("m-text", <<text_part>>, "")
MsgActionOnly ==
    create_message("m-action", <<data_part(ActionData({"action"}, "fetch_week_events", ParamsNull))>>, "")
MsgParams(mid, p, ctx) == create_message(mid, <<text_part, data_part(ActionParams(p))>>, ctx)

ValidRequests ==
    { create_send_message_request(m) :
        m \in { MsgTextOnly, MsgActionOnly,
                MsgParams("m-full", ParamsDict("hello"), "ctx-1"),
                MsgParams("m-notext", ParamsDict(""), ""),
                MsgParams("m-null", ParamsNull, ""),
                MsgParams("m-scalar", ParamsScalar, "") } }

InvalidRequests ==
    { RawRequest(FALSE, FALSE, NonDictMessage),
      RawRequest(TRUE, TRUE, RawMessage({"message_id", "role", "parts"}, "m-role", "system", TRUE, <<text_part>>, "")),
      RawRequest(TRUE, TRUE, RawMessage({"message_id", "role", "parts"}, "m-badpart", "user", TRUE,
                                        <<data_part(ActionParams(ParamsDict("hello"))), RawPart("text", {"type"})>>, "")) }

Requests == ValidRequests \cup InvalidRequests
NoRequest == RawRequest(FALSE, FALSE, NonDictMessage)


\* ------------------------------------------------------ protocol constructors
\* create_task_status(state, message=create_message(Role.AGENT, [text_part(text)])):
\* the status message's text is kept as the list of its pieces.
create_task_status(state, text) == [state |-> state, text |-> text]

\* create_task(context_id=context_id): a falsy context_id gets a generated one.
create_task(id, context_id) ==
    [id |-> id,
     context_id |-> IF context_id # "" THEN context_id ELSE "generated",
     status |-> create_task_status(SUBMITTED, <<>>),
     artifacts |-> <<>>,
     history |-> <<>>]

\* create_artifact(parts=..., name=...): the result the parts are built from.
create_artifact(name, result) == [name |-> name, result |-> result]

NoTask == [id |-> 0, context_id |-> "", status |-> create_task_status("", <<>>),
           artifacts |-> <<>>, history |-> <<>>]

\* ------------------------------------------------------------- agent servers
\* _extract_params: the "parameters" of the first data Part whose payload is
\* an object holding both "action" and "parameters"; None (ParamsNull) if
\* there is none.  A "parameters": null entry is returned as None too.
RECURSIVE extract_from(_, _)
extract_from(parts, i) ==
    IF i > Len(parts) THEN ParamsNull
    ELSE LET part == parts[i] IN
         IF /\ part.type = "data"
            /\ "data" \in part.fields
            /\ part.data.isDict
            /\ "action" \in part.data.keys
            /\ "parameters" \in part.data.keys
         THEN part.data.parameters
         ELSE extract_from(parts, i + 1)

\* Mutation: a payload with an "action" key alone is taken as a call with
\* empty parameters.
RECURSIVE extract_action_from(_, _)
extract_action_from(parts, i) ==
    IF i > Len(parts) THEN ParamsNull
    ELSE LET part == parts[i] IN
         IF part.type = "data" /\ "data" \in part.fields /\ part.data.isDict
            /\ "action" \in part.data.keys
         THEN IF "parameters" \in part.data.keys THEN part.data.parameters ELSE ParamsDict("")
         ELSE extract_action_from(parts, i + 1)

_extract_params_ActionOnly(message) ==
    IF "parts" \in message.fields THEN extract_action_from(message.parts, 1) ELSE ParamsNull

\* Mutation: the parameters are taken only when "action" is a skill id that
\* an agent of the system advertises.
RECURSIVE extract_known_from(_, _)
extract_known_from(parts, i) ==
    IF i > Len(parts) THEN ParamsNull
    ELSE LET part == parts[i] IN
         IF /\ part.type = "data"
            /\ "data" \in part.fields
            /\ part.data.isDict
            /\ "action" \in part.data.keys
            /\ "parameters" \in part.data.keys
            /\ part.data.action \in {"fetch_week_events", "format_weekly_preview",
                                     "send_telegram_message", "generate_weekly_preview"}
         THEN part.data.parameters
         ELSE extract_known_from(parts, i + 1)

_extract_params_KnownAction(message) ==
    IF "parts" \in message.fields THEN extract_known_from(message.parts, 1) ELSE ParamsNull

_extract_params(message) ==
    IF "parts" \in message.fields THEN extract_from(message.parts, 1) ELSE ParamsNull

\* What the domain collaborator can do when called: return a well-formed
\* result, return a dict with an "error" key, return a dict without the
\* documented keys, or raise an exception with a message.
ExcMsgs == {"boom", "quota exceeded"}
Returns == {"ok", "error", "nokeys"}
Outcomes == [kind : {"return"}, value : Returns] \cup [kind : {"raise"}, value : ExcMsgs]

ArtifactName(a) ==
    CASE a = "calendar" -> "calendar-events"
      [] a = "formatter" -> "weekly-preview"
      [] a = "telegram" -> "telegram-delivery"
      [] a = "orchestrator" -> "weekly-preview"

WorkingText(a) ==
    CASE a = "calendar" -> "Fetching calendar events..."
      [] a = "formatter" -> "Generating weekly preview..."
      [] a = "telegram" -> "Sending Telegram message..."
      [] a = "orchestrator" -> "Generating weekly preview..."

CompletedText(a) ==
    CASE a = "calendar" -> "Retrieved N events."
      [] a = "formatter" -> "Generated weekly preview (N words)."
      [] a = "telegram" -> "Message sent to Telegram (message_id: N)."
      [] a = "orchestrator" -> "Weekly preview saved to PATH"

\* Mutation: the status text hides the exception.
ErrorText_Generic(e) == <<"Error: ", "internal error">>

\* text_part(f"Error: {e}")
ErrorText(e) == <<"Error: ", e>>

NoResp == [http |-> 0, code |-> "", task |-> NoTask]
ErrorResp(http, code) == [http |-> http, code |-> code, task |-> NoTask]
TaskResp(task) == [http |-> 200, code |-> "", task |-> task]

\* A request thread: where it is in send_message() and its locals; invoked
\* and exc record the collaborator call (made or not, the message it raised).
Idle == [pc |-> "idle", agent |-> "", req |-> NoRequest, task |-> 0,
         params |-> ParamsNull, result |-> "", invoked |-> FALSE, exc |-> "",
         resp |-> NoResp]
NoGet == [agent |-> "", id |-> 0, resp |-> NoResp]

\* ----------------------------------------------------------- transport client
\* Error codes (protocol.py)
ERROR_TIMEOUT == "TimeoutError"
ERROR_REQUEST_FAILED == "RequestFailedError"
ERROR_INVALID_MESSAGE == "InvalidMessageError"

\* What one requests.post(...) + raise_for_status() + json() can do: return
\* the response body, raise requests.Timeout, or raise another
\* requests.RequestException (connection error, non-2xx status).
Payloads == {"task-completed", "task-failed"}
HttpOutcomes == [kind : {"ok"}, body : Payloads] \cup [kind : {"timeout", "failed"}, body : {""}]

ErrorResult(code) == [error |-> code, body |-> ""]
PayloadResult(body) == [error |-> "", body |-> body]
NoResult == [error |-> "", body |-> ""]

\* send_message(agent_url, request, timeout, max_retries, caller) in client.py:
\* pc, the arguments, the loop variable, and what the call has done so far
\* (the outcome of each HTTP attempt, each time.sleep argument).
ClientIdle == [pc |-> "idle", request |-> NoRequest, max_retries |-> 0, attempt |-> 0,
               attempts |-> <<>>, sleeps |-> <<>>, result |-> NoResult,
               fn |-> "send_message", logged |-> <<>>]

\* ------------------------------------------------------------- message log
\* LOG_DIR is there and writable, is there but the day's file cannot be
\* appended to, or is missing and cannot be created.
LogDirs == {"writable", "unwritable", "missing"}

\* log_a2a_message (logger.py): _ensure_log_dir() runs outside the try, so the
\* OSError of LOG_DIR.mkdir leaves the function; the OSError of the append is
\* caught.
log_raises == logdir = "missing"

\* The directions logged so far by a call, after log_a2a_message(_, direction)
\* has returned.
log_a2a_message(logged, direction) ==
    IF logdir = "writable" THEN Append(logged, direction) ELSE logged

\* ------------------------------------------------------ orchestrator: data
\* Runs of generate_weekly_preview per behaviour, and seconds on the clock.
MaxRuns == 2
MaxClock == 2

Skills == {"fetch_week_events", "format_weekly_preview", "send_telegram_message"}

\* Base URLs f"http://{host}:{port}"; main.py builds them with host 127.0.0.1,
\* the orchestrator's server and every Agent Card with host localhost.
Url(host, port) == [host |-> host, port |-> port]
NoUrl == Url("", "")
Hosts == {"127.0.0.1", "localhost"}
CALENDAR_PORT == "5001"
FORMATTER_PORT == "5002"
TELEGRAM_PORT == "5003"
Ports == {CALENDAR_PORT, FORMATTER_PORT, TELEGRAM_PORT}

\* create_agent_card(..., url=f"http://localhost:{port}", skills=[...]); NoCard
\* is fetch_agent_card returning None (unreachable agent or invalid card).
AgentCard(port, skill) ==
    [supported_interfaces |-> <<Url("localhost", port)>>, skills |-> <<skill>>]
NoCard == [supported_interfaces |-> <<>>, skills |-> <<>>]
AgentCards(port) == {NoCard} \cup {AgentCard(port, s) : s \in Skills}

\* get_agent_url(card) in discovery.py
get_agent_url(card) ==
    IF card.supported_interfaces # <<>> THEN card.supported_interfaces[1] ELSE NoUrl

\* discover_agents(base_urls): the cards of the URLs that gave one, in order.
RECURSIVE discover_agents(_, _)
discover_agents(base_urls, cards) ==
    IF base_urls = <<>> THEN <<>>
    ELSE LET card == cards[Head(base_urls).port] IN
         (IF card # NoCard THEN <<card>> ELSE <<>>) \o discover_agents(Tail(base_urls), cards)

\* The loop of OrchestratorAgent.discover: skill_map[skill["id"]] = card, a
\* later card replacing an earlier one that has the same skill id.
RECURSIVE skill_map_of(_)
skill_map_of(cards) ==
    IF cards = <<>> THEN [s \in {} |-> NoCard]
    ELSE LET earlier == skill_map_of(SubSeq(cards, 1, Len(cards) - 1))
             card == cards[Len(cards)]
             ids == {card.skills[i] : i \in DOMAIN card.skills}
         IN [s \in DOMAIN earlier \cup ids |-> IF s \in ids THEN card ELSE earlier[s]]

\* OrchestratorAgent.discover
discover(o, cards) ==
    skill_map_of(discover_agents(
        <<o.calendar_url, o.formatter_url>>
            \o (IF o.telegram_url # NoUrl THEN <<o.telegram_url>> ELSE <<>>),
        cards))

\* What a2a.client.send_message returns to the orchestrator: an error dict
\* {"error": {"code", "message"}} or a response {"task": Task}.  A Task is
\* kept as its state, its status message's text ("" when the status has no
\* message) and its artifacts, each the list of its parts.
WireTextPart(text) == [type |-> "text", text |-> text, data |-> [none |-> TRUE]]
WireDataPart(data) == [type |-> "data", text |-> "", data |-> data]
ErrorResponse(code, message) ==
    [error |-> code, message |-> message, state |-> "", text |-> "", artifacts |-> <<>>]
WireTask(state, text, artifacts) ==
    [error |-> "", message |-> "", state |-> state, text |-> text, artifacts |-> artifacts]

TransportErrors ==
    {ErrorResponse(ERROR_TIMEOUT, "Timeout calling url"),
     ErrorResponse(ERROR_REQUEST_FAILED, "connection refused")}
UnfinishedTasks ==
    {WireTask(FAILED, "Error: boom", <<>>), WireTask(WORKING, "", <<>>)}

\* CalendarAgent.fetch_week_events results, and the responses of the
\* calendar step.
CalendarPayloads ==
    {[events |-> "events-a", conflicts |-> "conflicts-a", total_events |-> 1, busiest_day |-> "Monday"],
     [events |-> "events-b", conflicts |-> "conflicts-b", total_events |-> 2, busiest_day |-> "Friday"]}
\* A result dict without "events", "conflicts" and "busiest_day".
PartialPayload == [total_events |-> 1]
\* The keys generate_weekly_preview reads from calendar_result.
CALENDAR_KEYS == {"events", "conflicts", "total_events", "busiest_day"}
CalendarResponses ==
    TransportErrors \cup UnfinishedTasks
    \cup {WireTask(COMPLETED, "Retrieved N events.", <<<<WireDataPart(PartialPayload)>>>>)}
    \cup {WireTask(COMPLETED, "Retrieved N events.", <<>>),
          WireTask(COMPLETED, "Retrieved N events.", <<<<WireTextPart("no data")>>>>)}
    \cup {WireTask(COMPLETED, "Retrieved N events.", <<<<WireDataPart(d)>>>>) : d \in CalendarPayloads}

\* FormatterAgent.format_weekly_preview results, and the responses of the
\* formatter step.
Summaries == {"summary-a", "summary-b"}
FormatterMeta == [format |-> "chat", word_count |-> "N"]
FormatterResponses ==
    TransportErrors \cup UnfinishedTasks
    \cup {WireTask(COMPLETED, "Generated weekly preview (N words).", <<>>),
          WireTask(COMPLETED, "Generated weekly preview (N words).", <<<<WireDataPart(FormatterMeta)>>>>)}
    \cup {WireTask(COMPLETED, "Generated weekly preview (N words).",
                   <<<<WireTextPart(t), WireDataPart(FormatterMeta)>>>>) : t \in Summaries}

\* TelegramAgent.send_message results, and the responses of the Telegram step.
TelegramDelivery == [message_id |-> "N", chat_id |-> "chat", sent_at |-> "T"]
TelegramResponses ==
    TransportErrors \cup UnfinishedTasks
    \cup {WireTask(COMPLETED, "Message sent to Telegram (message_id: N).", <<>>),
          WireTask(COMPLETED, "Message sent to Telegram (message_id: N).",
                   <<<<WireDataPart(TelegramDelivery)>>>>)}

\* The dict a step helper returns: {"error": text} or the extracted result.
StepError(text) == [error |-> text, data |-> [none |-> TRUE]]
StepOk(data) == [error |-> <<>>, data |-> data]
NoStep == StepOk([none |-> TRUE])

\* The dict generate_weekly_preview returns: {"error": text} or the bundle.
ErrorBundle(text) ==
    [error |-> text, summary |-> "", file_path |-> <<>>, week_start |-> "",
     total_events |-> 0, telegram_sent |-> FALSE]
Bundle(summary, file_path, week_start, total_events, telegram_sent) ==
    [error |-> <<>>, summary |-> summary, file_path |-> file_path, week_start |-> week_start,
     total_events |-> total_events, telegram_sent |-> telegram_sent]
NoBundle == ErrorBundle(<<>>)

\* OrchestratorAgent(calendar_url, formatter_url, calendars, timezone,
\* telegram_url) between calls of generate_weekly_preview: the locals of the
\* call, the send_message calls it made and what each returned.
Orchestrator(host, telegram) ==
    [calendar_url |-> Url(host, CALENDAR_PORT),
     formatter_url |-> Url(host, FORMATTER_PORT),
     telegram_url |-> IF telegram THEN Url(host, TELEGRAM_PORT) ELSE NoUrl,
     pc |-> "idle", runs |-> 0, discoveries |-> 0, start_date |-> "",
     skill_map |-> [s \in {} |-> NoCard],
     sent |-> <<>>, replies |-> <<>>,
     calendar_result |-> NoStep, format_result |-> NoStep,
     telegram_sent |-> FALSE, result |-> NoBundle]

\* One agent server, serving send-message requests one at a time to
\* completion; get-task requests are served concurrently with them.
Init ==
    /\ active \in {{a} : a \in Agents}
    /\ threads = {"h1"}
    /\ _tasks = [a \in Agents |-> {}]
    /\ heap = <<>>
    /\ nextId = 1
    /\ handler = [h \in Handlers |-> Idle]
    /\ returned = <<>>
    /\ getResp = NoGet
    /\ client = ClientIdle
    /\ orch = Orchestrator("localhost", FALSE)
    /\ served = [p \in Ports |-> NoCard]
    /\ files = <<>>
    /\ saved = <<>>
    /\ now = 0
    /\ logdir = "writable"
    /\ call = NoCall

\* The tail of send_message once the status is final: _tasks[task["id"]] = task;
\* response = {"task": task}; return jsonify(response), 200.
Respond(h, task, invoked, exc) ==
    /\ heap' = [heap EXCEPT ![task.id] = task]
    /\ _tasks' = [_tasks EXCEPT ![handler[h].agent] = @ \cup {task.id}]
    /\ handler' = [handler EXCEPT ![h].pc = "done", ![h].resp = TaskResp(task),
                                  ![h].invoked = invoked, ![h].exc = exc]
    /\ returned' = returned @@ (task.id :> [agent |-> handler[h].agent, task |-> task])

\* Mutation: no except clause; the exception leaves the handler (HTTP 500)
\* and the task stays as it was.
Fail_Uncaught(h, text, invoked, exc) ==
    /\ handler' = [handler EXCEPT ![h].pc = "done", ![h].resp = ErrorResp(500, "InternalError"),
                                  ![h].invoked = invoked, ![h].exc = exc]
    /\ UNCHANGED <<heap, _tasks, returned>>

\* task["status"] = create_task_status(TaskState.FAILED, ...), then the tail.
Fail(h, text, invoked, exc) ==
    Respond(h, [heap[handler[h].task] EXCEPT !.status = create_task_status(FAILED, text)],
            invoked, exc)

\* The same after the collaborator has returned value: the result is kept in
\* the thread's frame.
FailAfter(h, text, value) ==
    LET task == [heap[handler[h].task] EXCEPT !.status = create_task_status(FAILED, text)] IN
    /\ heap' = [heap EXCEPT ![task.id] = task]
    /\ _tasks' = [_tasks EXCEPT ![handler[h].agent] = @ \cup {task.id}]
    /\ handler' = [handler EXCEPT ![h].pc = "done", ![h].resp = TaskResp(task),
                                  ![h].invoked = TRUE, ![h].exc = "", ![h].result = value]
    /\ returned' = returned @@ (task.id :> [agent |-> handler[h].agent, task |-> task])

\* Mutation: the task is created and stored before the request is validated.
SendMessage_Reject_AfterCreate(h, a, r) ==
    /\ handler[h].pc = "idle"
    /\ ~validate_send_message_request(r).valid
    /\ nextId <= MaxTasks
    /\ heap' = Append(heap, create_task(nextId, ""))
    /\ _tasks' = [_tasks EXCEPT ![a] = @ \cup {nextId}]
    /\ nextId' = nextId + 1
    /\ handler' = [handler EXCEPT ![h] =
            [Idle EXCEPT !.pc = "done", !.agent = a, !.req = r,
                         !.resp = ErrorResp(400, "InvalidMessageError")]]
    /\ getResp' = NoGet
    /\ UNCHANGED <<active, threads, returned, client>>
    /\ UNCHANGED <<WorkflowVars, logdir, call>>

\* send_message, from "incoming = request.json" to the 400 return: the request
\* fails validation.
SendMessage_Reject(h, a, r) ==
    /\ handler[h].pc = "idle"
    /\ ~log_raises
    /\ ~validate_send_message_request(r).valid
    /\ handler' = [handler EXCEPT ![h] =
            [Idle EXCEPT !.pc = "done", !.agent = a, !.req = r,
                         !.resp = IF validate_send_message_request(r).raised # ""
                                  THEN ErrorResp(500, "InternalError")
                                  ELSE ErrorResp(400, "InvalidMessageError")]]
    /\ getResp' = NoGet
    /\ UNCHANGED <<active, threads, _tasks, heap, nextId, returned, client>>
    /\ UNCHANGED <<WorkflowVars, logdir, call>>

\* send_message, "log_a2a_message(incoming, ...)": the call raises OSError, no
\* handler catches it and the framework answers HTTP 500.
SendMessage_LogRaises(h, a, r) ==
    /\ handler[h].pc = "idle"
    /\ log_raises
    /\ handler' = [handler EXCEPT ![h] =
            [Idle EXCEPT !.pc = "done", !.agent = a, !.req = r,
                         !.resp = ErrorResp(500, "InternalError")]]
    /\ getResp' = NoGet
    /\ UNCHANGED <<active, threads, _tasks, heap, nextId, returned, client>>
    /\ UNCHANGED <<WorkflowVars, logdir, call>>

\* Mutation: the inbound message is not appended to the history.
SendMessage_Create_NoHistory(h, a, r) ==
    /\ handler[h].pc = "idle"
    /\ validate_send_message_request(r).valid
    /\ nextId <= MaxTasks
    /\ LET msg == r.message
           ctx == IF "context_id" \in msg.fields THEN msg.context_id ELSE ""
           task == create_task(nextId, ctx)
       IN /\ heap' = Append(heap, task)
          /\ _tasks' = [_tasks EXCEPT ![a] = @ \cup {task.id}]
          /\ handler' = [handler EXCEPT ![h] =
                [Idle EXCEPT !.pc = "stored", !.agent = a, !.req = r, !.task = task.id]]
    /\ nextId' = nextId + 1
    /\ getResp' = NoGet
    /\ UNCHANGED <<active, threads, returned, client>>
    /\ UNCHANGED <<WorkflowVars, logdir, call>>

\* Mutation: the task is put into _tasks only by the tail of the handler.
SendMessage_Create_StoreLater(h, a, r) ==
    /\ handler[h].pc = "idle"
    /\ validate_send_message_request(r).valid
    /\ nextId <= MaxTasks
    /\ LET msg == r.message
           ctx == IF "context_id" \in msg.fields THEN msg.context_id ELSE ""
           task == [create_task(nextId, ctx) EXCEPT !.history = Append(@, msg)]
       IN /\ heap' = Append(heap, task)
          /\ handler' = [handler EXCEPT ![h] =
                [Idle EXCEPT !.pc = "stored", !.agent = a, !.req = r, !.task = task.id]]
    /\ nextId' = nextId + 1
    /\ getResp' = NoGet
    /\ UNCHANGED <<active, threads, _tasks, returned, client>>
    /\ UNCHANGED <<WorkflowVars, logdir, call>>

\* Mutation: the servers of one process share a single _tasks dict.
SendMessage_Create_SharedStore(h, a, r) ==
    /\ handler[h].pc = "idle"
    /\ ~log_raises
    /\ validate_send_message_request(r).valid
    /\ nextId <= MaxTasks
    /\ LET msg == r.message
           ctx == IF "context_id" \in msg.fields THEN msg.context_id ELSE ""
           task == [create_task(nextId, ctx) EXCEPT !.history = Append(@, msg)]
       IN /\ heap' = Append(heap, task)
          /\ _tasks' = [b \in Agents |-> _tasks[b] \cup {task.id}]
          /\ handler' = [handler EXCEPT ![h] =
                [Idle EXCEPT !.pc = "stored", !.agent = a, !.req = r, !.task = task.id]]
    /\ nextId' = nextId + 1
    /\ getResp' = NoGet
    /\ UNCHANGED <<active, threads, returned, client>>
    /\ UNCHANGED <<WorkflowVars, logdir, call>>

\* Mutation: a request whose message_id the store has seen is answered with
\* the task created for it then.
SendMessage_Create_Dedup(h, a, r) ==
    /\ handler[h].pc = "idle"
    /\ ~log_raises
    /\ validate_send_message_request(r).valid
    /\ LET msg == r.message
           ctx == IF "context_id" \in msg.fields THEN msg.context_id ELSE ""
           task == [create_task(nextId, ctx) EXCEPT !.history = Append(@, msg)]
           seen == {id \in _tasks[a] : heap[id].history[1].message_id = msg.message_id}
       IN IF seen # {}
          THEN /\ handler' = [handler EXCEPT ![h] =
                     [Idle EXCEPT !.pc = "done", !.agent = a, !.req = r,
                                  !.task = CHOOSE id \in seen : TRUE,
                                  !.resp = TaskResp(heap[CHOOSE id \in seen : TRUE])]]
               /\ UNCHANGED <<heap, _tasks, nextId>>
          ELSE /\ nextId <= MaxTasks
               /\ heap' = Append(heap, task)
               /\ _tasks' = [_tasks EXCEPT ![a] = @ \cup {task.id}]
               /\ handler' = [handler EXCEPT ![h] =
                     [Idle EXCEPT !.pc = "stored", !.agent = a, !.req = r, !.task = task.id]]
               /\ nextId' = nextId + 1
    /\ getResp' = NoGet
    /\ UNCHANGED <<active, threads, returned, client>>
    /\ UNCHANGED <<WorkflowVars, logdir, call>>

\* send_message, "# Create a new Task": create_task, history.append(msg),
\* _tasks[task["id"]] = task.
SendMessage_Create(h, a, r) ==
    /\ handler[h].pc = "idle"
    /\ ~log_raises
    /\ validate_send_message_request(r).valid
    /\ nextId <= MaxTasks
    /\ LET msg == r.message
           ctx == IF "context_id" \in msg.fields THEN msg.context_id ELSE ""
           task == [create_task(nextId, ctx) EXCEPT !.history = Append(@, msg)]
       IN /\ heap' = Append(heap, task)
          /\ _tasks' = [_tasks EXCEPT ![a] = @ \cup {task.id}]
          /\ handler' = [handler EXCEPT ![h] =
                [Idle EXCEPT !.pc = "stored", !.agent = a, !.req = r, !.task = task.id]]
    /\ nextId' = nextId + 1
    /\ getResp' = NoGet
    /\ UNCHANGED <<active, threads, returned, client>>
    /\ UNCHANGED <<WorkflowVars, logdir, call>>

\* Mutation: the status is not set to WORKING before the collaborator runs.
SendMessage_Extract_NoWorking(h) ==
    /\ handler[h].pc = "stored"
    /\ LET params == _extract_params(handler[h].req.message) IN
       IF params.kind = "null"
       THEN Fail(h, <<"No action parameters found in message.">>, FALSE, "")
       ELSE /\ handler' = [handler EXCEPT ![h].pc = "working", ![h].params = params]
            /\ UNCHANGED <<heap, _tasks, returned>>
    /\ getResp' = NoGet
    /\ UNCHANGED <<active, threads, nextId, client>>
    /\ UNCHANGED <<WorkflowVars, logdir, call>>

\* send_message, "# Extract action parameters": without parameters the task
\* is FAILED and returned; with them it is set to WORKING.
SendMessage_Extract(h) ==
    /\ handler[h].pc = "stored"
    /\ LET params == _extract_params(handler[h].req.message) IN
       IF params.kind = "null"
       THEN Fail(h, <<"No action parameters found in message.">>, FALSE, "")
       ELSE /\ heap' = [heap EXCEPT ![handler[h].task].status =
                            create_task_status(WORKING, <<WorkingText(handler[h].agent)>>)]
            /\ handler' = [handler EXCEPT ![h].pc = "working", ![h].params = params]
            /\ UNCHANGED <<_tasks, returned>>
    /\ getResp' = NoGet
    /\ UNCHANGED <<active, threads, nextId, client>>
    /\ UNCHANGED <<WorkflowVars, logdir, call>>

\* The body of the try between the collaborator's return and
\* task["artifacts"] = [artifact], for agent a and the returned value:
\* "raise" with the exception's message, "fail" with the status text (the
\* orchestrator's error result), or "artifact".
AfterReturn(a, value) ==
    CASE a = "calendar" -> [do |-> "artifact", text |-> ""]
      [] a = "formatter" ->
            IF value = "ok" THEN [do |-> "artifact", text |-> ""]
            ELSE [do |-> "raise", text |-> "'formatted_summary'"]
      [] a = "telegram" ->
            IF value = "error" THEN [do |-> "raise", text |-> "delivery failed"]
            ELSE [do |-> "artifact", text |-> ""]
      [] a = "orchestrator" ->
            IF value = "error" THEN [do |-> "fail", text |-> "Calendar Agent failed: unknown"]
            ELSE IF value = "ok" THEN [do |-> "artifact", text |-> ""]
            ELSE [do |-> "raise", text |-> "'summary'"]

\* Mutation: the Telegram server sends whatever text it finds, empty or not.
SendMessage_Invoke_NoTextCheck(h, o) ==
    /\ handler[h].pc = "working"
    /\ LET a == handler[h].agent
           params == handler[h].params
       IN IF params.kind # "dict"
          THEN \* params.get(...) on a non-dict: AttributeError
               /\ o = [kind |-> "return", value |-> "ok"]
               /\ Fail(h, ErrorText("object has no attribute 'get'"), FALSE, "")
          ELSE IF o.kind = "raise"
          THEN Fail(h, ErrorText(o.value), TRUE, o.value)
          ELSE LET next == AfterReturn(a, o.value) IN
               IF next.do = "artifact"
               THEN /\ heap' = [heap EXCEPT ![handler[h].task].artifacts =
                                    <<create_artifact(ArtifactName(a), o.value)>>]
                    /\ handler' = [handler EXCEPT ![h].pc = "artifact", ![h].invoked = TRUE,
                                                  ![h].result = o.value]
                    /\ UNCHANGED <<_tasks, returned>>
               ELSE /\ FailAfter(h, IF next.do = "raise" THEN ErrorText(next.text) ELSE <<next.text>>,
                                 o.value)
    /\ getResp' = NoGet
    /\ UNCHANGED <<active, threads, nextId, client>>
    /\ UNCHANGED <<WorkflowVars, logdir, call>>

\* Mutation: the status is set to COMPLETED before the artifact is attached.
SendMessage_Invoke_StatusFirst(h, o) ==
    /\ handler[h].pc = "working"
    /\ LET a == handler[h].agent
           params == handler[h].params
       IN IF params.kind # "dict"
          THEN \* params.get(...) on a non-dict: AttributeError
               /\ o = [kind |-> "return", value |-> "ok"]
               /\ Fail(h, ErrorText("object has no attribute 'get'"), FALSE, "")
          ELSE IF a = "telegram" /\ params.text = ""
          THEN \* raise ValueError("No text provided to send")
               /\ o = [kind |-> "return", value |-> "ok"]
               /\ Fail(h, ErrorText("No text provided to send"), FALSE, "")
          ELSE IF o.kind = "raise"
          THEN Fail(h, ErrorText(o.value), TRUE, o.value)
          ELSE LET next == AfterReturn(a, o.value) IN
               IF next.do = "artifact"
               THEN /\ heap' = [heap EXCEPT ![handler[h].task].status =
                                    create_task_status(COMPLETED, <<CompletedText(a)>>)]
                    /\ handler' = [handler EXCEPT ![h].pc = "artifact", ![h].invoked = TRUE,
                                                  ![h].result = o.value]
                    /\ UNCHANGED <<_tasks, returned>>
               ELSE /\ FailAfter(h, IF next.do = "raise" THEN ErrorText(next.text) ELSE <<next.text>>,
                                 o.value)
    /\ getResp' = NoGet
    /\ UNCHANGED <<active, threads, nextId, client>>
    /\ UNCHANGED <<WorkflowVars, logdir, call>>

\* send_message, the try block up to task["artifacts"] = [artifact]: reading
\* the parameters, the collaborator call, the artifact.
SendMessage_Invoke(h, o) ==
    /\ handler[h].pc = "working"
    /\ LET a == handler[h].agent
           params == handler[h].params
       IN IF params.kind # "dict"
          THEN \* params.get(...) on a non-dict: AttributeError
               /\ o = [kind |-> "return", value |-> "ok"]
               /\ Fail(h, ErrorText("object has no attribute 'get'"), FALSE, "")
          ELSE IF a = "telegram" /\ params.text = ""
          THEN \* raise ValueError("No text provided to send")
               /\ o = [kind |-> "return", value |-> "ok"]
               /\ Fail(h, ErrorText("No text provided to send"), FALSE, "")
          ELSE IF o.kind = "raise"
          THEN Fail(h, ErrorText(o.value), TRUE, o.value)
          ELSE LET next == AfterReturn(a, o.value) IN
               IF next.do = "artifact"
               THEN /\ heap' = [heap EXCEPT ![handler[h].task].artifacts =
                                    <<create_artifact(ArtifactName(a), o.value)>>]
                    /\ handler' = [handler EXCEPT ![h].pc = "artifact", ![h].invoked = TRUE,
                                                  ![h].result = o.value]
                    /\ UNCHANGED <<_tasks, returned>>
               ELSE /\ FailAfter(h, IF next.do = "raise" THEN ErrorText(next.text) ELSE <<next.text>>,
                                 o.value)
    /\ getResp' = NoGet
    /\ UNCHANGED <<active, threads, nextId, client>>
    /\ UNCHANGED <<WorkflowVars, logdir, call>>

\* The key the COMPLETED status message reads from the result after the
\* artifact is attached: absent from a result without the documented keys.
SummaryKeyMissing(a, value) ==
    CASE a = "calendar" -> value # "ok"
      [] a = "telegram" -> value # "ok"
      [] OTHER -> FALSE

SummaryKey(a) == IF a = "calendar" THEN "'total_events'" ELSE "'message_id'"

\* send_message, "# Update to COMPLETED" (or the except clause), then the tail.
SendMessage_Complete(h) ==
    /\ handler[h].pc = "artifact"
    /\ LET a == handler[h].agent IN
       IF SummaryKeyMissing(a, handler[h].result)
       THEN Fail(h, ErrorText(SummaryKey(a)), TRUE, "")
       ELSE Respond(h, [heap[handler[h].task] EXCEPT !.status =
                            create_task_status(COMPLETED, <<CompletedText(a)>>)], TRUE, "")
    /\ getResp' = NoGet
    /\ UNCHANGED <<active, threads, nextId, client>>
    /\ UNCHANGED <<WorkflowVars, logdir, call>>

\* Mutation: a finished task is dropped from the store once it is returned.
SendMessage_Return_Evict(h) ==
    /\ handler[h].pc = "done"
    /\ handler' = [handler EXCEPT ![h] = Idle]
    /\ _tasks' = [_tasks EXCEPT ![handler[h].agent] = @ \ {handler[h].task}]
    /\ getResp' = NoGet
    /\ UNCHANGED <<active, threads, heap, nextId, returned, client>>
    /\ UNCHANGED <<WorkflowVars, logdir, call>>

\* The request thread is free again once the response is sent.
SendMessage_Return(h) ==
    /\ handler[h].pc = "done"
    /\ handler' = [handler EXCEPT ![h] = Idle]
    /\ getResp' = NoGet
    /\ UNCHANGED <<active, threads, _tasks, heap, nextId, returned, client>>
    /\ UNCHANGED <<WorkflowVars, logdir, call>>

\* get_task (server.py): _tasks.get(task_id); 404 if None, else the task.
get_task(a, task_id) ==
    IF task_id \notin _tasks[a]
    THEN ErrorResp(404, "TaskNotFoundError")
    ELSE TaskResp(heap[task_id])

\* GET /tasks/<task_id>: getResp is the response of the request just served.
GetTask(a, task_id) ==
    /\ getResp' = [agent |-> a, id |-> task_id, resp |-> get_task(a, task_id)]
    /\ UNCHANGED <<active, threads, _tasks, heap, nextId, handler, returned, client>>
    /\ UNCHANGED <<WorkflowVars, logdir, call>>

Next ==
    \/ \E h \in threads, a \in active, r \in Requests : SendMessage_Reject(h, a, r)
    \/ \E h \in threads, a \in active, r \in Requests : SendMessage_Create(h, a, r)
    \/ \E h \in threads : SendMessage_Extract(h)
    \/ \E h \in threads, o \in Outcomes : SendMessage_Invoke(h, o)
    \/ \E h \in threads : SendMessage_Complete(h)
    \/ \E h \in threads : SendMessage_Return(h)
    \/ \E a \in active, id \in 1..nextId : GetTask(a, id)

Spec == Init /\ [][Next]_vars

\* A request thread that can take its next step takes it: the thread is
\* scheduled, and the collaborator call returns or raises.
HandlerStep(h) ==
    \/ SendMessage_Extract(h)
    \/ \E o \in Outcomes : SendMessage_Invoke(h, o)
    \/ SendMessage_Complete(h)

FairSpec == Spec /\ \A h \in Handlers : WF_vars(HandlerStep(h))

\* main.py: the Calendar and Formatter servers, and the Telegram server when
\* it is configured, run as threads of one process, each app with its own
\* module-level _tasks; two requests can be in progress at a time.
MultiAgentInit ==
    /\ active \in {{"calendar", "formatter"}, {"calendar", "formatter", "telegram"}}
    /\ threads = {"h1", "h2"}
    /\ _tasks = [a \in Agents |-> {}]
    /\ heap = <<>>
    /\ nextId = 1
    /\ handler = [h \in Handlers |-> Idle]
    /\ returned = <<>>
    /\ getResp = NoGet
    /\ client = ClientIdle
    /\ orch = Orchestrator("localhost", FALSE)
    /\ served = [p \in Ports |-> NoCard]
    /\ files = <<>>
    /\ saved = <<>>
    /\ now = 0
    /\ logdir = "writable"
    /\ call = NoCall

\* The requests sent to the servers of the process: one that every agent
\* accepts and one that fails validation.
MultiAgentRequests ==
    {create_send_message_request(MsgParams("m-full", ParamsDict("hello"), "ctx-1")),
     RawRequest(FALSE, FALSE, NonDictMessage)}

MultiAgentNext ==
    \/ \E h \in threads, a \in active, r \in MultiAgentRequests : SendMessage_Reject(h, a, r)
    \/ \E h \in threads, a \in active, r \in MultiAgentRequests : SendMessage_Create(h, a, r)
    \/ \E h \in threads : SendMessage_Extract(h)
    \/ \E h \in threads, o \in Outcomes : SendMessage_Invoke(h, o)
    \/ \E h \in threads : SendMessage_Complete(h)
    \/ \E h \in threads : SendMessage_Return(h)
    \/ \E a \in active, id \in 1..nextId : GetTask(a, id)

MultiAgentSpec == MultiAgentInit /\ [][MultiAgentNext]_vars


\* One agent server with two request threads.
ActionInit ==
    /\ active \in {{a} : a \in Agents}
    /\ threads = {"h1", "h2"}
    /\ _tasks = [a \in Agents |-> {}]
    /\ heap = <<>>
    /\ nextId = 1
    /\ handler = [h \in Handlers |-> Idle]
    /\ returned = <<>>
    /\ getResp = NoGet
    /\ client = ClientIdle
    /\ orch = Orchestrator("localhost", FALSE)
    /\ served = [p \in Ports |-> NoCard]
    /\ files = <<>>
    /\ saved = <<>>
    /\ now = 0
    /\ logdir = "writable"
    /\ call = NoCall

\* Requests that differ in the "action" string of the data part only: the
\* skill id of the Calendar agent, that of the Telegram agent, and a string no
\* agent advertises; with a text parameter or without.
ActionRequests ==
    {create_send_message_request(
        create_message("m-act", <<text_part, data_part(ActionData({"action", "parameters"}, action, p))>>, ""))
       : action \in {"fetch_week_events", "send_telegram_message", "drop_all_tasks"},
         p \in {ParamsDict("hello"), ParamsDict("")}}

ActionNext ==
    \/ \E h \in threads, a \in active, r \in ActionRequests : SendMessage_Create(h, a, r)
    \/ \E h \in threads : SendMessage_Extract(h)
    \/ \E h \in threads, o \in Outcomes : SendMessage_Invoke(h, o)
    \/ \E h \in threads : SendMessage_Complete(h)
    \/ \E h \in threads : SendMessage_Return(h)

ActionSpec == ActionInit /\ [][ActionNext]_vars


\* ------------------------------------------------- transport client: actions
ClientInit ==
    /\ active = {}
    /\ threads = {}
    /\ _tasks = [a \in Agents |-> {}]
    /\ heap = <<>>
    /\ nextId = 1
    /\ handler = [h \in Handlers |-> Idle]
    /\ returned = <<>>
    /\ getResp = NoGet
    /\ client = ClientIdle
    /\ orch = Orchestrator("localhost", FALSE)
    /\ served = [p \in Ports |-> NoCard]
    /\ files = <<>>
    /\ saved = <<>>
    /\ now = 0
    /\ logdir = "writable"
    /\ call = NoCall

ServerVars == <<active, threads, _tasks, heap, nextId, handler, returned, getResp>>

\* Mutation: the request is posted without being validated first.
Client_Call_ValidateLater(request, max_retries) ==
    /\ client.pc = "idle"
    /\ client' = [ClientIdle EXCEPT !.pc = "attempt", !.request = request,
                                    !.max_retries = max_retries]
    /\ UNCHANGED <<active, threads, _tasks, heap, nextId, handler, returned, getResp>>
    /\ UNCHANGED <<WorkflowVars, logdir, call>>

\* send_message, "# Validate before sending" to the start of the loop.
Client_Call(request, max_retries) ==
    /\ client.pc = "idle"
    /\ LET c == [ClientIdle EXCEPT !.request = request, !.max_retries = max_retries] IN
       client' =
         IF validate_send_message_request(request).raised # ""
         THEN [c EXCEPT !.pc = "raised"]
         ELSE IF ~validate_send_message_request(request).valid
         THEN [c EXCEPT !.pc = "done", !.result = ErrorResult(ERROR_INVALID_MESSAGE)]
         ELSE IF log_raises THEN [c EXCEPT !.pc = "raised"]
         ELSE [c EXCEPT !.pc = "attempt", !.logged = log_a2a_message(@, "outgoing")]
    /\ UNCHANGED ServerVars
    /\ UNCHANGED <<WorkflowVars, logdir, call>>

\* Mutation: the retry test lets the last iteration sleep as well.
ShouldRetry_Inclusive(attempt, max_retries) == attempt <= max_retries

\* "if attempt < max_retries" in both except clauses.
ShouldRetry(attempt, max_retries) == attempt < max_retries

\* Mutation: the backoff exponent starts at 0.
wait_time_FromOne(attempt) == 2 ^ attempt

\* "wait_time = 2 ** (attempt + 1)"
wait_time(attempt) == 2 ^ (attempt + 1)

\* Mutation: only requests.Timeout is caught; any other RequestException
\* leaves send_message as an exception.
Client_Attempt_CatchTimeoutOnly(o) ==
    /\ client.pc = "attempt"
    /\ LET c == [client EXCEPT !.attempts = Append(@, o)] IN
       client' =
         IF o.kind = "ok" THEN [c EXCEPT !.pc = "done", !.result = PayloadResult(o.body)]
         ELSE IF o.kind = "failed" THEN [c EXCEPT !.pc = "raised"]
         ELSE IF ShouldRetry(client.attempt, client.max_retries)
              THEN [c EXCEPT !.pc = "sleep"]
         ELSE [c EXCEPT !.pc = "done", !.result = ErrorResult(ERROR_TIMEOUT)]
    /\ UNCHANGED ServerVars
    /\ UNCHANGED <<WorkflowVars, logdir, call>>

\* Mutation: a call that has seen a timeout in any attempt ends in TimeoutError.
Client_Attempt_AnyTimeout(o) ==
    /\ client.pc = "attempt"
    /\ LET c == [client EXCEPT !.attempts = Append(@, o)] IN
       client' =
         IF o.kind = "ok" THEN
            IF log_raises THEN [c EXCEPT !.pc = "raised"]
            ELSE [c EXCEPT !.pc = "done", !.result = PayloadResult(o.body),
                           !.logged = log_a2a_message(@, "incoming")]
         ELSE IF ShouldRetry(client.attempt, client.max_retries)
              THEN [c EXCEPT !.pc = "sleep"]
         ELSE [c EXCEPT !.pc = "done",
                        !.result = ErrorResult(
                            IF \E i \in DOMAIN c.attempts : c.attempts[i].kind = "timeout"
                            THEN ERROR_TIMEOUT ELSE ERROR_REQUEST_FAILED)]
    /\ UNCHANGED ServerVars
    /\ UNCHANGED <<WorkflowVars, logdir, call>>

\* One iteration of "for attempt in range(max_retries + 1)" up to the return
\* or the time.sleep call.
Client_Attempt(o) ==
    /\ client.pc = "attempt"
    /\ LET c == [client EXCEPT !.attempts = Append(@, o)] IN
       client' =
         IF o.kind = "ok" THEN
            IF log_raises THEN [c EXCEPT !.pc = "raised"]
            ELSE [c EXCEPT !.pc = "done", !.result = PayloadResult(o.body),
                           !.logged = log_a2a_message(@, "incoming")]
         ELSE IF ShouldRetry(client.attempt, client.max_retries)
              THEN [c EXCEPT !.pc = "sleep"]
         ELSE [c EXCEPT !.pc = "done",
                        !.result = ErrorResult(IF o.kind = "timeout" THEN ERROR_TIMEOUT
                                               ELSE ERROR_REQUEST_FAILED)]
    /\ UNCHANGED ServerVars
    /\ UNCHANGED <<WorkflowVars, logdir, call>>

\* time.sleep(wait_time), then the next iteration of the loop, or the
\* return after the loop when range(max_retries + 1) is exhausted.
Client_Sleep ==
    /\ client.pc = "sleep"
    /\ LET c == [client EXCEPT !.sleeps = Append(@, wait_time(client.attempt))] IN
       client' =
         IF client.attempt + 1 < client.max_retries + 1
         THEN [c EXCEPT !.pc = "attempt", !.attempt = @ + 1]
         ELSE [c EXCEPT !.pc = "done", !.result = ErrorResult(ERROR_REQUEST_FAILED)]
    /\ UNCHANGED ServerVars
    /\ UNCHANGED <<WorkflowVars, logdir, call>>

\* get_task(agent_url, task_id, timeout, caller) in client.py: one HTTP GET;
\* every RequestException (a timeout too) gives the RequestFailed result.
Client_GetTask(o) ==
    /\ client.pc = "idle"
    /\ LET c == [ClientIdle EXCEPT !.fn = "get_task", !.attempts = <<o>>] IN
       client' =
         IF o.kind = "ok" THEN
            IF log_raises THEN [c EXCEPT !.pc = "raised"]
            ELSE [c EXCEPT !.pc = "done", !.result = PayloadResult(o.body),
                           !.logged = log_a2a_message(@, "incoming")]
         ELSE [c EXCEPT !.pc = "done", !.result = ErrorResult(ERROR_REQUEST_FAILED)]
    /\ UNCHANGED ServerVars
    /\ UNCHANGED <<WorkflowVars, logdir, call>>

ClientNext ==
    \/ \E r \in Requests, m \in 0..MaxRetriesBound : Client_Call(r, m)
    \/ \E o \in HttpOutcomes : Client_Attempt(o)
    \/ Client_Sleep

ClientSpec == ClientInit /\ [][ClientNext]_vars

\* The call runs on its caller's thread, which is not starved.
FairClientSpec == ClientSpec /\ WF_vars(ClientNext)

\* ------------------------------------------- transport client against a server
\* Largest max_retries of the call made against a running server.
MaxCallRetries == 1

\* One send_message call against one agent server with two request threads.
RetryInit ==
    /\ active \in {{"calendar"}, {"telegram"}}
    /\ threads = {"h1", "h2"}
    /\ _tasks = [a \in Agents |-> {}]
    /\ heap = <<>>
    /\ nextId = 1
    /\ handler = [h \in Handlers |-> Idle]
    /\ returned = <<>>
    /\ getResp = NoGet
    /\ client = ClientIdle
    /\ orch = Orchestrator("localhost", FALSE)
    /\ served = [p \in Ports |-> NoCard]
    /\ files = <<>>
    /\ saved = <<>>
    /\ now = 0
    /\ logdir = "writable"
    /\ call = NoCall

RetryRequest == create_send_message_request(MsgParams("m-full", ParamsDict("hello"), "ctx-1"))

\* The tasks the server created for the attempts that are over, and the task
\* it created for the attempt in progress (0 when its POST has not been
\* received).
TasksOfAttempts == {client.attempts[i].task : i \in DOMAIN client.attempts} \ {0}
CurrentTask ==
    IF (1..(nextId - 1)) \ TasksOfAttempts = {} THEN 0
    ELSE CHOOSE id \in (1..(nextId - 1)) \ TasksOfAttempts : TRUE

\* requests.post(url, json=request, timeout=timeout) of the attempt in
\* progress reaches the server, which starts a handler for it.
Retry_Receive(h, a) ==
    /\ client.pc = "attempt"
    /\ CurrentTask = 0
    /\ SendMessage_Create(h, a, client.request)

\* The response of the handler arrives within the timeout.
Retry_Response ==
    /\ CurrentTask \in DOMAIN returned
    /\ Client_Attempt([kind |-> "ok", task |-> CurrentTask,
                       body |-> IF returned[CurrentTask].task.status.state = COMPLETED
                                THEN "task-completed" ELSE "task-failed"])

\* requests.Timeout, or another RequestException: the attempt ends for the
\* client, whether or not the server has received the POST and whatever its
\* handler is doing.
Retry_Timeout == Client_Attempt([kind |-> "timeout", task |-> CurrentTask, body |-> ""])
Retry_Failed == Client_Attempt([kind |-> "failed", task |-> CurrentTask, body |-> ""])

RetryNext ==
    \/ \E m \in 0..MaxCallRetries : Client_Call(RetryRequest, m)
    \/ \E h \in threads, a \in active : Retry_Receive(h, a)
    \/ \E h \in threads : SendMessage_Extract(h)
    \/ \E h \in threads, o \in Outcomes : SendMessage_Invoke(h, o)
    \/ \E h \in threads : SendMessage_Complete(h)
    \/ \E h \in threads : SendMessage_Return(h)
    \/ Retry_Response
    \/ Retry_Timeout
    \/ Retry_Failed
    \/ Client_Sleep

RetrySpec == RetryInit /\ [][RetryNext]_vars

\* A process that logs A2A messages, with LOG_DIR in any state: either one
\* agent server or a program that calls the transport client.
LoggingInit ==
    /\ \/ active \in {{a} : a \in Agents} /\ threads = {"h1"}
       \/ active = {} /\ threads = {}
    /\ _tasks = [a \in Agents |-> {}]
    /\ heap = <<>>
    /\ nextId = 1
    /\ handler = [h \in Handlers |-> Idle]
    /\ returned = <<>>
    /\ getResp = NoGet
    /\ client = ClientIdle
    /\ orch = Orchestrator("localhost", FALSE)
    /\ served = [p \in Ports |-> NoCard]
    /\ files = <<>>
    /\ saved = <<>>
    /\ now = 0
    /\ logdir \in LogDirs
    /\ call = NoCall

LoggingNext ==
    \/ \E h \in threads, a \in active, r \in Requests : SendMessage_LogRaises(h, a, r)
    \/ threads # {} /\ Next
    \/ threads = {} /\ ClientNext
    \/ threads = {} /\ \E o \in HttpOutcomes : Client_GetTask(o)

LoggingSpec == LoggingInit /\ [][LoggingNext]_vars


\* ------------------------------------------------------- validator: actions
\* No server, client or workflow runs; library functions are called directly.
LibraryInit ==
    /\ active = {}
    /\ threads = {}
    /\ _tasks = [a \in Agents |-> {}]
    /\ heap = <<>>
    /\ nextId = 1
    /\ handler = [h \in Handlers |-> Idle]
    /\ returned = <<>>
    /\ getResp = NoGet
    /\ client = ClientIdle
    /\ orch = Orchestrator("localhost", FALSE)
    /\ served = [p \in Ports |-> NoCard]
    /\ files = <<>>
    /\ saved = <<>>
    /\ now = 0
    /\ logdir = "writable"

LibraryVars ==
    <<active, threads, _tasks, heap, nextId, handler, returned, getResp, client,
      orch, served, files, saved, now, logdir>>

\* One validate_* function is called with one value off the wire.
ValidatorInit ==
    /\ LibraryInit
    /\ call \in {Called("validate_part", p) : p \in PartInputs}
              \cup {Called("validate_message", m) : m \in MessageInputs}
              \cup {Called("validate_task_status", s) : s \in StatusInputs}
              \cup {Called("validate_task", t) : t \in TaskInputs}
              \cup {Called("validate_send_message_request", r) : r \in RequestInputs}
              \cup {Called("validate_agent_card", c) : c \in CardInputs}

Validate_Part ==
    /\ call.pc = "called" /\ call.fn = "validate_part"
    /\ call' = Returned(validate_part(call.input))
    /\ UNCHANGED LibraryVars

Validate_Message ==
    /\ call.pc = "called" /\ call.fn = "validate_message"
    /\ call' = Returned(validate_message(call.input))
    /\ UNCHANGED LibraryVars

Validate_TaskStatus ==
    /\ call.pc = "called" /\ call.fn = "validate_task_status"
    /\ call' = Returned(validate_task_status(call.input))
    /\ UNCHANGED LibraryVars

Validate_Task ==
    /\ call.pc = "called" /\ call.fn = "validate_task"
    /\ call' = Returned(validate_task(call.input))
    /\ UNCHANGED LibraryVars

Validate_SendMessageRequest ==
    /\ call.pc = "called" /\ call.fn = "validate_send_message_request"
    /\ call' = Returned(validate_send_message_request(call.input))
    /\ UNCHANGED LibraryVars

Validate_AgentCard ==
    /\ call.pc = "called" /\ call.fn = "validate_agent_card"
    /\ call' = Returned(validate_agent_card(call.input))
    /\ UNCHANGED LibraryVars

ValidatorNext ==
    \/ Validate_Part
    \/ Validate_Message
    \/ Validate_TaskStatus
    \/ Validate_Task
    \/ Validate_SendMessageRequest
    \/ Validate_AgentCard

ValidatorSpec == ValidatorInit /\ [][ValidatorNext]_vars


\* -------------------------------------------------------- discovery: actions
\* URLs in one discover_agents call.
MaxUrls == 3

\* What GET {base_url}/.well-known/agent.json gives: no connection or a
\* timeout, a non-2xx status, or 2xx with a JSON body.
FetchedCards ==
    {create_agent_card("Calendar Agent", "Fetches events", "http://localhost:5001", "1.0.0", <<Skill>>),
     create_agent_card("Formatter Agent", "Formats", "http://localhost:5002", "1.0.0", <<>>),
     create_agent_card("", "", "http://localhost:5001", "1.0.0", <<>>),
     RawCard(TRUE, "Broken Agent", CardKeys, {},
             RawList(TRUE, <<RawEntry("string", {}, {})>>), RawList(TRUE, <<>>)),
     NonDictCard}
FetchOutcomes ==
    [kind : {"unreachable", "http_error"}, card : {NonDictCard}]
    \cup [kind : {"ok"}, card : FetchedCards]

\* What fetch_agent_card returns (a card or None) or that it raised.
Fetched(kind, card) == [kind |-> kind, card |-> card]

\* fetch_agent_card (discovery.py): requests.RequestException is caught; an
\* exception of validate_agent_card is not.
fetch_agent_card(o) ==
    IF o.kind # "ok" THEN Fetched("none", NonDictCard)
    ELSE LET v == validate_agent_card(o.card) IN
         IF v.raised # "" THEN Fetched("raised", NonDictCard)
         ELSE IF ~v.valid THEN Fetched("none", NonDictCard)
         ELSE Fetched("card", o.card)

\* The sequences over S of length 0..n.
SeqsUpTo(S, n) == UNION {[1..k -> S] : k \in 0..n}

\* discover_agents(base_urls) is called; each URL will give one outcome.
DiscoveryInit ==
    /\ LibraryInit
    /\ call \in {[fn |-> "discover_agents", input |-> urls, pc |-> "loop", i |-> 1,
                   cards |-> <<>>, result |-> <<>>] : urls \in SeqsUpTo(FetchOutcomes, MaxUrls)}

\* One iteration of "for url in base_urls": fetch_agent_card, "if card:
\* cards.append(card)".
Discover_Fetch ==
    /\ call.fn = "discover_agents" /\ call.pc = "loop"
    /\ call.i <= Len(call.input)
    /\ LET r == fetch_agent_card(call.input[call.i]) IN
       call' = IF r.kind = "raised" THEN [call EXCEPT !.pc = "raised"]
               ELSE [call EXCEPT !.i = @ + 1,
                                 !.cards = IF r.kind = "card" THEN Append(@, r.card) ELSE @]
    /\ UNCHANGED LibraryVars

\* "return cards"
Discover_Return ==
    /\ call.fn = "discover_agents" /\ call.pc = "loop"
    /\ call.i > Len(call.input)
    /\ call' = [call EXCEPT !.pc = "returned", !.result = call.cards]
    /\ UNCHANGED LibraryVars

DiscoveryNext == Discover_Fetch \/ Discover_Return

DiscoverySpec == DiscoveryInit /\ [][DiscoveryNext]_vars


\* ------------------------------------------------------------ calendar agent
\* Raw events in one fetch_week_events call, over all configured calendars.
MaxEvents == 3

\* Days of February 2025 (the 17th is a Monday); "%Y-%m-%d" strings order as
\* the days do.
Dates == {17, 18}
DayNames == <<"Monday", "Tuesday", "Wednesday", "Thursday", "Friday", "Saturday", "Sunday">>
\* The "label" of the configured calendars.
Labels == {"You", "Partner"}
\* Start of a timed event in minutes after midnight (12:00 AM, 11:30 AM,
\* 12:00 PM) and its length in minutes (end - start).
StartMinutes == {0, 690, 720}
TotalMinutes == {0, 30, 90}

\* What fetch_events returns for a calendar, with the label of that calendar:
\* an all-day event ("date" under "start") or a timed one ("dateTime").
RawEvents ==
    [all_day : {TRUE}, date : Dates, start : {0}, total_minutes : {0}, label : Labels]
    \cup [all_day : {FALSE}, date : Dates, start : StartMinutes,
          total_minutes : TotalMinutes, label : Labels]

\* A word and a number of a duration string split at blanks.
Word(w) == [word |-> w]
Num(n) == [num |-> n]

\* strftime("%-I:%M %p") and the "All day" text.
ClockTime(start) ==
    [kind |-> "clock",
     hour |-> IF (start \div 60) % 12 = 0 THEN 12 ELSE (start \div 60) % 12,
     minute |-> start % 60,
     ampm |-> IF start \div 60 < 12 THEN "AM" ELSE "PM"]
AllDayTime == [kind |-> "text", text |-> "All day"]

\* The duration text of parse_event: "N hour(s)[ M min]" from 60 minutes on,
\* "M min" below.
DurationText(total_minutes) ==
    IF total_minutes >= 60
    THEN LET hours == total_minutes \div 60
             mins == total_minutes % 60
         IN <<Num(hours), Word(IF hours > 1 THEN "hours" ELSE "hour")>>
            \o (IF mins # 0 THEN <<Num(mins), Word("min")>> ELSE <<>>)
    ELSE <<Num(total_minutes), Word("min")>>

\* parse_event (google_client.py) followed by parsed["calendar_source"] = label;
\* summary is the raw event's "summary".
parse_event(raw, summary) ==
    [day |-> DayNames[((raw.date - 17) % 7) + 1],
     date |-> raw.date,
     time |-> IF raw.all_day THEN AllDayTime ELSE ClockTime(raw.start),
     title |-> summary,
     duration |-> IF raw.all_day THEN <<Word("All"), Word("day")>>
                  ELSE DurationText(raw.total_minutes),
     is_all_day |-> raw.all_day,
     calendar_source |-> raw.label]

\* datetime.strptime(time, "%I:%M %p") as minutes after midnight; -1 stands for
\* the ValueError.
strptime(time) ==
    IF time.kind # "clock" THEN -1
    ELSE ((time.hour % 12) + (IF time.ampm = "PM" THEN 12 ELSE 0)) * 60 + time.minute

\* _event_sort_key: (date, "%H:%M"), with "00:00" for all-day events and
\* "99:99" for a time that does not parse. The time key is the number HHMM,
\* which orders as the zero-padded text does.
_event_sort_key(event) ==
    LET time_key == IF event.time = AllDayTime THEN 0
                    ELSE IF strptime(event.time) < 0 THEN 9999
                    ELSE (strptime(event.time) \div 60) * 100 + (strptime(event.time) % 60)
    IN <<event.date, time_key>>

\* Tuple comparison k1 <= k2.
KeyLE(k1, k2) == k1[1] < k2[1] \/ (k1[1] = k2[1] /\ k1[2] <= k2[2])

\* list.sort(key=_event_sort_key): stable, so an event goes behind the events
\* before it whose key is not larger.
RECURSIVE sorted_from(_, _, _)
sorted_from(events, i, done) ==
    IF i > Len(events) THEN done
    ELSE LET e == events[i]
             n == Cardinality({k \in DOMAIN done :
                     KeyLE(_event_sort_key(done[k]), _event_sort_key(e))})
         IN sorted_from(events, i + 1,
                        SubSeq(done, 1, n) \o <<e>> \o SubSeq(done, n + 1, Len(done)))
sort(events) == sorted_from(events, 1, <<>>)

\* _parse_duration_minutes: a number followed by a unit adds hours or minutes,
\* a trailing number adds minutes, words are skipped; 30 when the sum is not
\* positive.
RECURSIVE parse_duration_from(_, _, _)
parse_duration_from(parts, i, minutes) ==
    IF i > Len(parts) THEN minutes
    ELSE IF "num" \notin DOMAIN parts[i] THEN parse_duration_from(parts, i + 1, minutes)
    ELSE IF i + 1 > Len(parts) THEN parse_duration_from(parts, i + 1, minutes + parts[i].num)
    ELSE LET unit == parts[i + 1]
             isWord == "word" \in DOMAIN unit
         IN parse_duration_from(parts, i + 2,
                IF isWord /\ unit.word \in {"hour", "hours"} THEN minutes + parts[i].num * 60
                ELSE IF isWord /\ unit.word \in {"min", "mins", "minutes"} THEN minutes + parts[i].num
                ELSE minutes)
_parse_duration_minutes(duration) ==
    LET minutes == parse_duration_from(duration, 1, 0)
    IN IF minutes > 0 THEN minutes ELSE 30

\* _times_overlap: False when a time does not parse, else
\* start1 < end2 and start2 < end1.
_times_overlap(ev1, ev2) ==
    LET start1 == strptime(ev1.time)
        start2 == strptime(ev2.time)
    IN IF start1 < 0 \/ start2 < 0 THEN FALSE
       ELSE /\ start1 < start2 + _parse_duration_minutes(ev2.duration)
            /\ start2 < start1 + _parse_duration_minutes(ev1.duration)

\* The inner loop of _detect_conflicts over timed[i + 1:]: break at another
\* date, continue at another calendar_source, one entry per overlap.
RECURSIVE conflicts_with(_, _, _)
conflicts_with(timed, i, j) ==
    IF j > Len(timed) THEN <<>>
    ELSE IF timed[i].date # timed[j].date THEN <<>>
    ELSE IF timed[i].calendar_source # timed[j].calendar_source
         THEN conflicts_with(timed, i, j + 1)
    ELSE IF _times_overlap(timed[i], timed[j])
         THEN <<[time |-> <<timed[i].day, timed[i].time>>,
                 events |-> <<timed[i].title, timed[j].title>>,
                 calendar_source |-> timed[i].calendar_source]>>
              \o conflicts_with(timed, i, j + 1)
    ELSE conflicts_with(timed, i, j + 1)

RECURSIVE conflicts_from(_, _)
conflicts_from(timed, i) ==
    IF i > Len(timed) THEN <<>>
    ELSE conflicts_with(timed, i, i + 1) \o conflicts_from(timed, i + 1)

NotAllDay(e) == ~e.is_all_day

\* _detect_conflicts(events)
_detect_conflicts(events) == conflicts_from(SelectSeq(events, NotAllDay), 1)

\* _find_busiest_day with ties going to the day that appears last.
_find_busiest_day_LastTie(events) ==
    IF events = <<>> THEN ""
    ELSE LET count(d) == Cardinality({i \in DOMAIN events : events[i].day = d})
             first(d) == CHOOSE i \in DOMAIN events :
                            /\ events[i].day = d
                            /\ \A k \in 1..(i - 1) : events[k].day # d
             days == {events[i].day : i \in DOMAIN events}
         IN CHOOSE d \in days :
                \A o \in days : count(d) > count(o) \/ (count(d) = count(o) /\ first(d) >= first(o))

\* _find_busiest_day: "" without events, else the first day, in the order the
\* days appear in the list, with the largest count.
_find_busiest_day(events) ==
    IF events = <<>> THEN ""
    ELSE LET count(d) == Cardinality({i \in DOMAIN events : events[i].day = d})
             first(d) == CHOOSE i \in DOMAIN events :
                            /\ events[i].day = d
                            /\ \A k \in 1..(i - 1) : events[k].day # d
             days == {events[i].day : i \in DOMAIN events}
         IN CHOOSE d \in days :
                \A o \in days : count(d) > count(o) \/ (count(d) = count(o) /\ first(d) <= first(o))

\* CalendarAgent.fetch_week_events on the raw events of the calendars: parse,
\* label, sort, detect conflicts, find the busiest day.
fetch_week_events(raw_events) ==
    LET all_events == sort([i \in DOMAIN raw_events |->
                               parse_event(raw_events[i], "Event " \o ToString(i))])
    IN [events |-> all_events,
        conflicts |-> _detect_conflicts(all_events),
        total_events |-> Len(all_events),
        busiest_day |-> _find_busiest_day(all_events)]

\* conflict.get("date", ""); 0 stands for the empty string, which is the
\* "%Y-%m-%d" text of no day.
conflict_date(conflict) == IF "date" \in DOMAIN conflict THEN conflict.date ELSE 0

\* _build_conflict_lookup (formatter/agent.py): the keys (date, title) of the
\* lookup; a title gets a key when the conflict names another title, and its
\* value "Overlaps with ..." is never empty.
_build_conflict_lookup(conflicts) ==
    UNION {LET event_names == {conflicts[k].events[n] : n \in DOMAIN conflicts[k].events}
           IN {<<conflict_date(conflicts[k]), name>> :
                  name \in {n \in event_names : event_names \ {n} # {}}}
           : k \in DOMAIN conflicts}

\* build_chat_format: the event lines of the seven days from week_start on, in
\* the order of the list within a day; a line ends with the warning sign when
\* the lookup has (date_str, title). The header, the day headers and the time
\* part of a line are left out.
RECURSIVE chat_lines_from(_, _, _, _)
chat_lines_from(events, conflicts, week_start, i) ==
    IF i > 6 THEN <<>>
    ELSE LET date_str == week_start + i
             OnDay(e) == e.date = date_str
             day_events == SelectSeq(events, OnDay)
         IN [n \in DOMAIN day_events |->
                [date |-> date_str,
                 source |-> day_events[n].calendar_source,
                 title |-> day_events[n].title,
                 warning |-> <<date_str, day_events[n].title>>
                               \in _build_conflict_lookup(conflicts)]]
            \o chat_lines_from(events, conflicts, week_start, i + 1)
build_chat_format(events, conflicts, week_start) ==
    chat_lines_from(events, conflicts, week_start, 0)

\* FormatterAgent.format_weekly_preview, without the word count.
format_weekly_preview(events, conflicts, week_start) ==
    [formatted_summary |-> build_chat_format(events, conflicts, week_start),
     format |-> "chat"]

\* Events handed to _find_busiest_day in one call, and their days.
MaxDayEvents == 4
DayEvents == [day : {"Monday", "Tuesday", "Wednesday"}]

\* fetch_week_events is called and the calendars hold these raw events, or
\* _find_busiest_day is called with a list of events.
CalendarInit ==
    /\ LibraryInit
    /\ call \in {[fn |-> "fetch_week_events", input |-> raw, pc |-> "called",
                   result |-> fetch_week_events(<<>>),
                   preview |-> format_weekly_preview(<<>>, <<>>, 17)]
                    : raw \in SeqsUpTo(RawEvents, MaxEvents)}
                \cup {[fn |-> "_find_busiest_day", input |-> events, pc |-> "called",
                       result |-> ""] : events \in SeqsUpTo(DayEvents, MaxDayEvents)}

Calendar_FetchWeekEvents ==
    /\ call.fn = "fetch_week_events" /\ call.pc = "called"
    /\ call' = [call EXCEPT !.pc = "returned", !.result = fetch_week_events(call.input)]
    /\ UNCHANGED LibraryVars

\* The orchestrator passes events and conflicts of the calendar step on to
\* format_weekly_preview, with the Monday of the week as week_start.
Formatter_FormatWeeklyPreview ==
    /\ call.fn = "fetch_week_events" /\ call.pc = "returned"
    /\ call' = [call EXCEPT !.pc = "formatted",
                            !.preview = format_weekly_preview(call.result.events,
                                                              call.result.conflicts, 17)]
    /\ UNCHANGED LibraryVars

Calendar_FindBusiestDay ==
    /\ call.fn = "_find_busiest_day" /\ call.pc = "called"
    /\ call' = [call EXCEPT !.pc = "returned", !.result = _find_busiest_day(call.input)]
    /\ UNCHANGED LibraryVars

CalendarNext ==
    \/ Calendar_FetchWeekEvents
    \/ Formatter_FormatWeeklyPreview
    \/ Calendar_FindBusiestDay

CalendarSpec == CalendarInit /\ [][CalendarNext]_vars


\* ------------------------------------------------- orchestrator: week range
\* The dates datetime.now() is drawn from: every day of a leap year and of the
\* year after it.
Years == {2024, 2025}
IsLeap(year) == year % 4 = 0 /\ (year % 100 # 0 \/ year % 400 = 0)
DaysInMonth(year, month) ==
    IF month = 2 THEN (IF IsLeap(year) THEN 29 ELSE 28)
    ELSE IF month \in {4, 6, 9, 11} THEN 30 ELSE 31
Date(year, month, day) == [year |-> year, month |-> month, day |-> day]
DatesOf(years) ==
    {dt \in {Date(y, m, d) : y \in years, m \in 1..12, d \in 1..31} :
        dt.day <= DaysInMonth(dt.year, dt.month)}

\* date.toordinal(): days from 0001-01-01, which is day 1.
RECURSIVE DaysBeforeMonth(_, _)
DaysBeforeMonth(year, month) ==
    IF month = 1 THEN 0
    ELSE DaysBeforeMonth(year, month - 1) + DaysInMonth(year, month - 1)
DaysBeforeYear(year) ==
    (year - 1) * 365 + ((year - 1) \div 4) - ((year - 1) \div 100) + ((year - 1) \div 400)
toordinal(dt) == DaysBeforeYear(dt.year) + DaysBeforeMonth(dt.year, dt.month) + dt.day

\* The date of an ordinal, among the years around those drawn.
fromordinal(n) ==
    CHOOSE dt \in DatesOf({y + k : y \in Years, k \in {-1, 0, 1}}) : toordinal(dt) = n

\* date.weekday(): Monday is 0, Sunday is 6.
weekday(dt) == (toordinal(dt) + 6) % 7

\* date + timedelta(days=days)
plus_days(dt, days) == fromordinal(toordinal(dt) + days)

\* calculate_week_range with Sunday taken as weekday 0.
calculate_week_range_SundayFirst(today, next_week) ==
    LET this_monday == plus_days(today, 0 - ((weekday(today) + 1) % 7))
        monday == IF next_week THEN plus_days(this_monday, 7) ELSE this_monday
    IN <<monday, plus_days(monday, 6)>>

\* calculate_week_range(next_week) when datetime.now() is on the day today:
\* the "%Y-%m-%d" dates of the Monday and the Sunday. The workflow above keeps
\* the week as a name (calculate_week_range).
calculate_week_range_on(today, next_week) ==
    LET this_monday == plus_days(today, 0 - weekday(today))
        monday == IF next_week THEN plus_days(this_monday, 7) ELSE this_monday
    IN <<monday, plus_days(monday, 6)>>

\* calculate_week_range(next_week) is called on some day.
WeekInit ==
    /\ LibraryInit
    /\ call \in {[fn |-> "calculate_week_range", today |-> today, next_week |-> next_week,
                   pc |-> "called", result |-> <<today, today>>]
                    : today \in DatesOf(Years), next_week \in BOOLEAN}

Week_Calculate ==
    /\ call.fn = "calculate_week_range" /\ call.pc = "called"
    /\ call' = [call EXCEPT !.pc = "returned",
                            !.result = calculate_week_range_on(call.today, call.next_week)]
    /\ UNCHANGED LibraryVars

WeekNext == Week_Calculate

WeekSpec == WeekInit /\ [][WeekNext]_vars


\* ---------------------------------------------------- orchestrator: workflow
\* An orchestrator built by main.py or by the orchestrator's server, with or
\* without a Telegram URL, and some Agent Card (or none) behind each port.
WorkflowInit ==
    /\ active = {}
    /\ threads = {}
    /\ _tasks = [a \in Agents |-> {}]
    /\ heap = <<>>
    /\ nextId = 1
    /\ handler = [h \in Handlers |-> Idle]
    /\ returned = <<>>
    /\ getResp = NoGet
    /\ client = ClientIdle
    /\ \E host \in Hosts, telegram \in BOOLEAN : orch = Orchestrator(host, telegram)
    /\ served \in [Ports -> UNION {AgentCards(p) : p \in Ports}]
    /\ \A p \in Ports : served[p] \in AgentCards(p)
    /\ orch.telegram_url = NoUrl => served[TELEGRAM_PORT] = NoCard
    /\ files = <<>>
    /\ saved = <<>>
    /\ now = 0
    /\ logdir = "writable"
    /\ call = NoCall

\* calculate_week_range(next_week): the Monday of this week or of the next.
calculate_week_range(next_week) == IF next_week THEN "week-2" ELSE "week-1"

\* Mutation: only the calendar skill is required.
RequiredSkillError_CalendarOnly(skill_map) ==
    IF "fetch_week_events" \notin DOMAIN skill_map
    THEN <<"Calendar Agent not available (fetch_week_events skill not found)">>
    ELSE <<>>

\* "if ... not in skill_map: return {"error": ...}" after discovery.
RequiredSkillError(skill_map) ==
    IF "fetch_week_events" \notin DOMAIN skill_map
    THEN <<"Calendar Agent not available (fetch_week_events skill not found)">>
    ELSE IF "format_weekly_preview" \notin DOMAIN skill_map
    THEN <<"Formatter Agent not available (format_weekly_preview skill not found)">>
    ELSE <<>>

\* Mutation: a task is not asked for its state.
TaskError_IgnoreState(agent_name, response) ==
    IF response.error # ""
    THEN <<agent_name, " failed: ", response.message>>
    ELSE IF response.artifacts = <<>>
    THEN <<agent_name, " returned no artifacts">>
    ELSE <<>>

\* The checks each step helper makes on the response before it reads the
\* first artifact: the "error" key, the task state, the artifacts list.
TaskError(agent_name, response) ==
    IF response.error # ""
    THEN <<agent_name, " failed: ", response.message>>
    ELSE IF response.state # "completed"
    THEN <<agent_name, " task ", response.state, ": ",
           IF response.text # "" THEN response.text ELSE "unknown error">>
    ELSE IF response.artifacts = <<>>
    THEN <<agent_name, " returned no artifacts">>
    ELSE <<>>

\* "for part in artifacts[0].get("parts", [])": the index of the first / the
\* last part of a type, 0 when there is none.
RECURSIVE first_part(_, _, _)
first_part(parts, type, i) ==
    IF i > Len(parts) THEN 0
    ELSE IF parts[i].type = type THEN i
    ELSE first_part(parts, type, i + 1)

RECURSIVE last_part(_, _, _)
last_part(parts, type, i) ==
    IF i < 1 THEN 0
    ELSE IF parts[i].type = type THEN i
    ELSE last_part(parts, type, i - 1)

\* _fetch_calendar_events, from 'if "error" in response' on.
_fetch_calendar_events(response) ==
    LET e == TaskError("Calendar Agent", response) IN
    IF e # <<>> THEN StepError(e)
    ELSE LET parts == response.artifacts[1]
             i == first_part(parts, "data", 1)
         IN IF i # 0 THEN StepOk(parts[i].data)
            ELSE StepError(<<"Calendar Agent artifact has no DataPart">>)

\* _format_preview, from 'if "error" in response' on: the text of the last
\* text part becomes formatted_summary, the data parts update the result.
_format_preview(response) ==
    LET e == TaskError("Formatter Agent", response) IN
    IF e # <<>> THEN StepError(e)
    ELSE LET parts == response.artifacts[1]
             t == last_part(parts, "text", Len(parts))
             d == last_part(parts, "data", Len(parts))
         IN IF t # 0
            THEN StepOk([formatted_summary |-> parts[t].text,
                         meta |-> IF d # 0 THEN parts[d].data ELSE [none |-> TRUE]])
            ELSE StepError(<<"Formatter Agent artifact has no TextPart">>)

\* _send_telegram, from 'if "error" in response' on.
_send_telegram(response) ==
    LET e == TaskError("Telegram Agent", response) IN
    IF e # <<>> THEN StepError(e)
    ELSE LET parts == response.artifacts[1]
             i == first_part(parts, "data", 1)
         IN IF i # 0 THEN StepOk(parts[i].data)
            ELSE StepError(<<"Telegram Agent artifact has no DataPart">>)

\* One send_message call of the workflow: the action of the data part, the
\* agent_url argument and the parameters.
Sent(action, agent_url, parameters) ==
    [action |-> action, agent_url |-> agent_url, parameters |-> parameters]

\* Mutation: the formatter is sent the events without the conflicts.
FormatParameters_NoConflicts(calendar_result, week_start) ==
    [events |-> calendar_result.events, conflicts |-> "",
     week_start |-> week_start, total_events |-> calendar_result.total_events,
     busiest_day |-> calendar_result.busiest_day]

\* The "parameters" of the format_weekly_preview request.
FormatParameters(calendar_result, week_start) ==
    [events |-> calendar_result.events, conflicts |-> calendar_result.conflicts,
     week_start |-> week_start, total_events |-> calendar_result.total_events,
     busiest_day |-> calendar_result.busiest_day]

\* Mutation: delivery is attempted whenever a Telegram URL is configured.
ShouldSendTelegram_IfConfigured(o) == o.telegram_url # NoUrl

\* 'if "send_telegram_message" in skill_map'
ShouldSendTelegram(o) == "send_telegram_message" \in DOMAIN o.skill_map

\* The end of a call: the dict it returns.
Return(o, bundle) == [o EXCEPT !.pc = "done", !.result = bundle]

ServerClientVars ==
    <<active, threads, _tasks, heap, nextId, handler, returned, getResp, client>>

\* generate_weekly_preview, steps 1 and 2: the date range, discovery and the
\* test for the two required skills.
Workflow_Discover(next_week) ==
    /\ orch.pc \in {"idle", "done"}
    /\ orch.runs < MaxRuns
    /\ LET skill_map == discover(orch, served)
           o == [orch EXCEPT !.runs = @ + 1, !.discoveries = 1,
                             !.start_date = calculate_week_range(next_week),
                             !.skill_map = skill_map,
                             !.sent = <<>>, !.replies = <<>>,
                             !.calendar_result = NoStep, !.format_result = NoStep,
                             !.telegram_sent = FALSE, !.result = NoBundle]
           e == RequiredSkillError(skill_map)
       IN orch' = IF e # <<>> THEN Return(o, ErrorBundle(e))
                  ELSE [o EXCEPT !.pc = "calendar"]
    /\ UNCHANGED <<served, files, saved, now>>
    /\ UNCHANGED <<ServerClientVars, logdir, call>>

\* Mutation: a calendar step that came back failed is sent again.
Workflow_Calendar_Resend(response) ==
    /\ orch.pc = "calendar"
    /\ LET o == [orch EXCEPT
                   !.sent = Append(@, Sent("fetch_week_events", orch.calendar_url,
                                            [start_date |-> orch.start_date])),
                   !.replies = Append(@, response)]
           r == _fetch_calendar_events(response)
       IN orch' = IF r.error # <<>>
                  THEN (IF Len(o.sent) < 2 THEN o ELSE Return(o, ErrorBundle(r.error)))
                  ELSE IF ~(CALENDAR_KEYS \subseteq DOMAIN r.data)
                       THEN [o EXCEPT !.pc = "raised", !.calendar_result = r]
                  ELSE [o EXCEPT !.pc = "format", !.calendar_result = r]
    /\ UNCHANGED <<served, files, saved, now>>
    /\ UNCHANGED <<ServerClientVars, logdir, call>>

\* Step 3: _fetch_calendar_events(start_date, end_date) and the test of its
\* result.
Workflow_Calendar(response) ==
    /\ orch.pc = "calendar"
    /\ LET o == [orch EXCEPT
                   !.sent = Append(@, Sent("fetch_week_events", orch.calendar_url,
                                            [start_date |-> orch.start_date])),
                   !.replies = Append(@, response)]
           r == _fetch_calendar_events(response)
       IN orch' = IF r.error # <<>> THEN Return(o, ErrorBundle(r.error))
                  ELSE IF ~(CALENDAR_KEYS \subseteq DOMAIN r.data)
                       THEN \* calendar_result["events"]: KeyError leaves the call
                            [o EXCEPT !.pc = "raised", !.calendar_result = r]
                  ELSE [o EXCEPT !.pc = "format", !.calendar_result = r]
    /\ UNCHANGED <<served, files, saved, now>>
    /\ UNCHANGED <<ServerClientVars, logdir, call>>

\* Step 4: _format_preview(...) and the test of its result; then the test
\* of step 5 for the Telegram skill.
Workflow_Format(response) ==
    /\ orch.pc = "format"
    /\ LET o == [orch EXCEPT
                   !.sent = Append(@, Sent("format_weekly_preview", orch.formatter_url,
                                            FormatParameters(orch.calendar_result.data,
                                                             orch.start_date))),
                   !.replies = Append(@, response)]
           r == _format_preview(response)
       IN orch' = IF r.error # <<>> THEN Return(o, ErrorBundle(r.error))
                  ELSE [o EXCEPT !.pc = IF ShouldSendTelegram(orch) THEN "telegram" ELSE "save",
                                 !.format_result = r]
    /\ UNCHANGED <<served, files, saved, now>>
    /\ UNCHANGED <<ServerClientVars, logdir, call>>

\* Mutation: a failed delivery ends the workflow with its error.
Workflow_Telegram_Fatal(response) ==
    /\ orch.pc = "telegram"
    /\ LET o == [orch EXCEPT
                   !.sent = Append(@, Sent("send_telegram_message", orch.telegram_url,
                                            [text |-> orch.format_result.data.formatted_summary])),
                   !.replies = Append(@, response)]
           r == _send_telegram(response)
       IN orch' = IF r.error # <<>> THEN Return(o, ErrorBundle(r.error))
                  ELSE [o EXCEPT !.pc = "save", !.telegram_sent = TRUE]
    /\ UNCHANGED <<served, files, saved, now>>
    /\ UNCHANGED <<ServerClientVars, logdir, call>>

\* Step 5: _send_telegram(summary); telegram_sent = "error" not in telegram_result.
Workflow_Telegram(response) ==
    /\ orch.pc = "telegram"
    /\ LET o == [orch EXCEPT
                   !.sent = Append(@, Sent("send_telegram_message", orch.telegram_url,
                                            [text |-> orch.format_result.data.formatted_summary])),
                   !.replies = Append(@, response)]
           r == _send_telegram(response)
       IN orch' = [o EXCEPT !.pc = "save", !.telegram_sent = (r.error = <<>>)]
    /\ UNCHANGED <<served, files, saved, now>>
    /\ UNCHANGED <<ServerClientVars, logdir, call>>

\* f"{week_start}_created-{created_at}.md" with created_at = now to the second.
SummaryPath(week_start, created_at) == [week_start |-> week_start, created_at |-> created_at]

\* Step 6: save_summary(summary, start_date), which writes (or overwrites)
\* the file, and the bundle the call returns.
Workflow_Save ==
    /\ orch.pc = "save"
    /\ LET summary == orch.format_result.data.formatted_summary
           file_path == SummaryPath(orch.start_date, now)
       IN /\ files' = (file_path :> summary) @@ files
          /\ saved' = Append(saved, [week_start |-> orch.start_date, file_path |-> file_path,
                                     summary |-> summary, replies |-> Len(orch.replies)])
          /\ orch' = Return(orch, Bundle(summary, file_path, orch.start_date,
                                         orch.calendar_result.data.total_events,
                                         orch.telegram_sent))
    /\ UNCHANGED <<served, now>>
    /\ UNCHANGED <<ServerClientVars, logdir, call>>

\* A second passes.
Tick ==
    /\ now < MaxClock
    /\ now' = now + 1
    /\ UNCHANGED <<orch, served, files, saved>>
    /\ UNCHANGED <<ServerClientVars, logdir, call>>

WorkflowNext ==
    \/ \E next_week \in BOOLEAN : Workflow_Discover(next_week)
    \/ \E response \in CalendarResponses : Workflow_Calendar(response)
    \/ \E response \in FormatterResponses : Workflow_Format(response)
    \/ \E response \in TelegramResponses : Workflow_Telegram(response)
    \/ Workflow_Save
    \/ Tick

WorkflowSpec == WorkflowInit /\ [][WorkflowNext]_vars


\* ===================================================================== claims
Range(seq) == {seq[i] : i \in DOMAIN seq}
StateOf(id) == heap[id].status.state
InFlight(h) == handler[h].pc \in {"stored", "working", "artifact"}
Answered(h) == handler[h].pc = "done"

\* C1: every task starts in SUBMITTED and its state changes only along
\* SUBMITTED->WORKING, SUBMITTED->FAILED, WORKING->COMPLETED, WORKING->FAILED;
\* COMPLETED and FAILED are never left and the other four states are never
\* reached.
LifecycleEdges ==
    {<<SUBMITTED, WORKING>>, <<SUBMITTED, FAILED>>, <<WORKING, COMPLETED>>, <<WORKING, FAILED>>}

C1_Lifecycle ==
    [][\A id \in DOMAIN heap' :
         IF id \in DOMAIN heap
         THEN \/ heap'[id].status.state = StateOf(id)
              \/ <<StateOf(id), heap'[id].status.state>> \in LifecycleEdges
         ELSE heap'[id].status.state = SUBMITTED]_vars

C1_Witness ==
    \E i, j \in DOMAIN heap : StateOf(i) = COMPLETED /\ StateOf(j) = FAILED

\* C2: a request that passed validation is always answered, with HTTP 200
\* and a Task in COMPLETED or FAILED, whether the collaborator returns or
\* raises.
C2_AlwaysAnswered ==
    /\ [](\A h \in Handlers :
            (Answered(h) /\ validate_send_message_request(handler[h].req).valid)
            => /\ handler[h].resp.http = 200
               /\ handler[h].resp.task.id = handler[h].task
               /\ handler[h].resp.task.status.state \in {COMPLETED, FAILED})
    /\ \A h \in Handlers :
            InFlight(h) ~> (/\ Answered(h)
                            /\ handler[h].resp.http = 200
                            /\ handler[h].resp.task.status.state \in {COMPLETED, FAILED})

C2_Witness ==
    \E h \in Handlers :
        /\ Answered(h) /\ handler[h].invoked /\ handler[h].exc # ""
        /\ handler[h].resp.http = 200
        /\ handler[h].resp.task.status.state = FAILED

HasActionAndParameters(part) ==
    /\ part.type = "data"
    /\ part.data.isDict
    /\ {"action", "parameters"} \subseteq part.data.keys

NoActionPart(message) ==
    \A i \in DOMAIN message.parts : ~HasActionAndParameters(message.parts[i])

C4_NoParamsFails ==
    \A h \in Handlers :
        (handler[h].task # 0 /\ NoActionPart(handler[h].req.message))
        => /\ handler[h].pc \in {"stored", "done"}
           /\ ~handler[h].invoked
           /\ StateOf(handler[h].task) = IF Answered(h) THEN FAILED ELSE SUBMITTED
           /\ heap[handler[h].task].artifacts = <<>>
           /\ Answered(h) => /\ handler[h].resp.http = 200
                             /\ handler[h].resp.task = heap[handler[h].task]

C4_Witness ==
    \E h \in Handlers :
        /\ Answered(h)
        /\ handler[h].req.message = MsgActionOnly
        /\ handler[h].resp.http = 200
        /\ handler[h].resp.task.status.state = FAILED

\* C5: when the collaborator raises, the answer is HTTP 200 with the task
\* FAILED and the exception's message in the status text; no answer is 5xx.
C5_ExceptionBecomesFailed ==
    \A h \in Handlers :
        /\ handler[h].resp.http < 500
        /\ (Answered(h) /\ handler[h].exc # "")
           => /\ handler[h].resp.http = 200
              /\ handler[h].resp.task.status.state = FAILED
              /\ handler[h].exc \in Range(handler[h].resp.task.status.text)

C5_Witness ==
    \E h \in Handlers :
        /\ Answered(h)
        /\ handler[h].exc = "quota exceeded"
        /\ handler[h].resp.task.status.text = <<"Error: ", "quota exceeded">>

\* C6: when the collaborator is called and returns a well-formed result, the
\* returned task is COMPLETED with exactly one artifact and a history that
\* starts with the inbound message.
C6_SuccessCompletes ==
    \A h \in Handlers :
        (Answered(h) /\ handler[h].invoked /\ handler[h].result = "ok")
        => /\ handler[h].resp.http = 200
           /\ handler[h].resp.task.status.state = COMPLETED
           /\ Len(handler[h].resp.task.artifacts) = 1
           /\ Len(handler[h].resp.task.history) >= 1
           /\ handler[h].resp.task.history[1].message_id = handler[h].req.message.message_id
           /\ handler[h].resp.task.history[1] = handler[h].req.message

C6_Witness ==
    \E h \in Handlers :
        /\ Answered(h) /\ handler[h].invoked /\ handler[h].result = "ok"
        /\ handler[h].resp.task.status.state = COMPLETED
        /\ handler[h].req.message.message_id = "m-full"

\* C7: get-task answers 404 TaskNotFoundError exactly for ids that are not
\* keys of the agent's store and 200 with the stored Task otherwise; a task
\* that send-message returned stays in the store unchanged, so every later
\* get-task returns it with the state, history and artifacts it had.
C7_GetTaskDurable ==
    /\ getResp # NoGet =>
         IF getResp.id \in _tasks[getResp.agent]
         THEN getResp.resp = TaskResp(heap[getResp.id])
         ELSE getResp.resp = ErrorResp(404, "TaskNotFoundError")
    /\ \A id \in DOMAIN returned :
         /\ get_task(returned[id].agent, id) = TaskResp(returned[id].task)
         /\ (getResp.id = id /\ getResp.agent = returned[id].agent)
            => /\ getResp.resp.http = 200
               /\ getResp.resp.task.status = returned[id].task.status
               /\ getResp.resp.task.history = returned[id].task.history
               /\ getResp.resp.task.artifacts = returned[id].task.artifacts

C7_Witness ==
    /\ getResp.id = 1
    /\ getResp.resp.http = 200
    /\ DOMAIN returned = {1, 2}
    /\ \A h \in Handlers : handler[h].pc = "idle"

\* C8: from the step that stores the task in SUBMITTED on, get-task finds it
\* and reports the state the handler has reached; what get-task reports for
\* a task never goes back in the order SUBMITTED, WORKING, terminal.
Rank(state) ==
    CASE state = SUBMITTED -> 0
      [] state = WORKING -> 1
      [] OTHER -> 2

ExpectedState(h) ==
    CASE handler[h].pc = "stored" -> SUBMITTED
      [] OTHER -> WORKING

C8_ConcurrentGet ==
    [][/\ \A h \in Handlers :
            InFlight(h) =>
              /\ get_task(handler[h].agent, handler[h].task).http = 200
              /\ get_task(handler[h].agent, handler[h].task).task.status.state = ExpectedState(h)
              /\ (getResp.id = handler[h].task /\ getResp.agent = handler[h].agent)
                 => /\ getResp.resp.http = 200
                    /\ getResp.resp.task.status.state = ExpectedState(h)
       /\ \A a \in Agents, id \in DOMAIN heap :
            get_task(a, id).http = 200 =>
              /\ get_task(a, id)'.http = 200
              /\ Rank(get_task(a, id)'.task.status.state) >= Rank(get_task(a, id).task.status.state)]_vars

C8_Witness ==
    \E h \in Handlers :
        /\ handler[h].pc = "stored"
        /\ getResp.id = handler[h].task
        /\ getResp.resp.http = 200
        /\ getResp.resp.task.status.state = SUBMITTED

\* C9: a call never makes more than max_retries + 1 HTTP attempts; when all
\* of them time out it makes exactly max_retries + 1 and returns
\* TimeoutError; every call returns.
AllTimedOut == \A i \in DOMAIN client.attempts : client.attempts[i].kind = "timeout"

C9_TimeoutAfterAllAttempts ==
    /\ [](/\ Len(client.attempts) <= client.max_retries + 1
          /\ (client.pc = "done" /\ client.attempts # <<>> /\ AllTimedOut)
             => /\ Len(client.attempts) = client.max_retries + 1
                /\ client.result = ErrorResult(ERROR_TIMEOUT))
    /\ (client.pc # "done") ~> (client.pc = "done")

C9_Witness ==
    /\ client.pc = "done"
    /\ client.max_retries = 2
    /\ Len(client.attempts) = 3
    /\ AllTimedOut
    /\ client.result = ErrorResult(ERROR_TIMEOUT)

\* C10: the k-th sleep of a call (k = 1, 2, ...) follows the failed attempt
\* with index k - 1 and lasts 2^k seconds; no sleep follows the last attempt;
\* a call that ends with a successful attempt returns its payload unchanged.
LastAttempt == client.attempts[Len(client.attempts)]

C10_Backoff ==
    /\ \A k \in DOMAIN client.sleeps : client.sleeps[k] = 2 ^ k
    /\ \A k \in DOMAIN client.attempts :
         k < Len(client.attempts) => client.attempts[k].kind # "ok"
    /\ client.pc = "attempt" => Len(client.sleeps) = Len(client.attempts)
    /\ client.pc = "sleep" => /\ Len(client.sleeps) = Len(client.attempts) - 1
                              /\ Len(client.attempts) <= client.max_retries
    /\ (client.pc = "done" /\ client.attempts # <<>>)
       => /\ Len(client.sleeps) = Len(client.attempts) - 1
          /\ LastAttempt.kind = "ok" => client.result = PayloadResult(LastAttempt.body)

C10_Witness ==
    /\ client.pc = "done"
    /\ client.max_retries = 3
    /\ client.sleeps = <<2, 4, 8>>
    /\ Len(client.attempts) = 4
    /\ \A k \in 1..3 : client.attempts[k].kind = "timeout"
    /\ client.result = PayloadResult("task-completed")

\* C11: a call whose every attempt fails (by timeout or by another transport
\* failure, in any order) makes exactly max_retries + 1 attempts with the
\* sleeps 2, 4, ... between them and returns an error result, RequestFailedError
\* when the last failure was not a timeout; the call never ends in an
\* exception.
NoAttemptSucceeded == \A i \in DOMAIN client.attempts : client.attempts[i].kind # "ok"

C11_RequestFailedAfterAllAttempts ==
    /\ client.pc \in {"idle", "attempt", "sleep", "done"}
    /\ (client.pc = "done" /\ client.attempts # <<>> /\ NoAttemptSucceeded)
       => /\ Len(client.attempts) = client.max_retries + 1
          /\ client.sleeps = [k \in 1..client.max_retries |-> 2 ^ k]
          /\ client.result.body = ""
          /\ client.result.error = IF LastAttempt.kind = "failed"
                                   THEN ERROR_REQUEST_FAILED ELSE ERROR_TIMEOUT

C11_Witness ==
    /\ client.pc = "done"
    /\ client.max_retries = 2
    /\ Len(client.attempts) = 3
    /\ \A i \in 1..3 : client.attempts[i].kind = "failed"
    /\ client.sleeps = <<2, 4>>
    /\ client.result = ErrorResult(ERROR_REQUEST_FAILED)

RequiredSkills == {"fetch_week_events", "format_weekly_preview"}

C13_MissingSkillAborts ==
    [][(orch'.runs # orch.runs /\ ~(RequiredSkills \subseteq DOMAIN orch'.skill_map))
       => /\ orch'.pc = "done"
          /\ orch'.result.error # <<>>
          /\ orch'.sent = <<>>
          /\ orch'.replies = <<>>
          /\ orch'.discoveries = 1
          /\ files' = files
          /\ saved' = saved]_vars

C13_Witness ==
    /\ orch.pc = "done"
    /\ "fetch_week_events" \in DOMAIN orch.skill_map
    /\ "format_weekly_preview" \notin DOMAIN orch.skill_map
    /\ orch.result.error # <<>>
    /\ orch.sent = <<>>
    /\ orch.runs = 2

\* C14: when the calendar step or the formatter step comes back with a
\* transport error or a task that is not COMPLETED, the call returns in that
\* step with an error that holds the downstream message; nothing further is
\* sent and no file is written.
StepFailed(response) == response.error # "" \/ response.state # COMPLETED
DownstreamMessage(response) ==
    IF response.error # "" THEN response.message ELSE response.text
LastReply(o) == o.replies[Len(o.replies)]

C14_StepFailureAborts ==
    [][(/\ orch.pc \in {"calendar", "format"}
        /\ Len(orch'.replies) = Len(orch.replies) + 1
        /\ StepFailed(LastReply(orch')))
       => /\ orch'.pc = "done"
          /\ orch'.result.error # <<>>
          /\ DownstreamMessage(LastReply(orch')) # ""
             => DownstreamMessage(LastReply(orch')) \in Range(orch'.result.error)
          /\ Len(orch'.sent) = Len(orch'.replies)
          /\ files' = files
          /\ saved' = saved]_vars

C14_Witness ==
    /\ orch.pc = "done"
    /\ Len(orch.replies) = 2
    /\ orch.replies[2].state = FAILED
    /\ orch.result.error = <<"Formatter Agent", " task ", FAILED, ": ", "Error: boom">>
    /\ "send_telegram_message" \in DOMAIN orch.skill_map
    /\ files = <<>>

\* C15: when the Telegram step comes back with a transport error or a task
\* that is not COMPLETED, the call goes on to save the summary and returns a
\* bundle without an error, with telegram_sent false and the file written.
C15_TelegramFailureNotFatal ==
    (Len(orch.replies) = 3 /\ StepFailed(orch.replies[3]))
    => /\ orch.pc \in {"save", "done"}
       /\ ~orch.telegram_sent
       /\ orch.pc = "done"
          => /\ orch.result.error = <<>>
             /\ ~orch.result.telegram_sent
             /\ orch.result.file_path \in DOMAIN files
             /\ files[orch.result.file_path] = orch.result.summary

C15_Witness ==
    /\ orch.pc = "done"
    /\ Len(orch.replies) = 3
    /\ orch.replies[3].error = ERROR_TIMEOUT
    /\ orch.result.error = <<>>
    /\ ~orch.result.telegram_sent
    /\ orch.result.file_path \in DOMAIN files

\* C16: in a run whose skill map has no send_telegram_message, no request
\* with that action and no request to the Telegram URL is sent and the result
\* has telegram_sent false; telegram_sent is true only when the skill is in
\* the map and the third reply is a COMPLETED task.
C16_TelegramOnlyIfDiscovered ==
    /\ "send_telegram_message" \notin DOMAIN orch.skill_map
       => /\ \A i \in DOMAIN orch.sent :
                /\ orch.sent[i].action # "send_telegram_message"
                /\ orch.sent[i].agent_url # Url(orch.calendar_url.host, TELEGRAM_PORT)
          /\ ~orch.telegram_sent
          /\ ~orch.result.telegram_sent
    /\ (orch.telegram_sent \/ orch.result.telegram_sent)
       => /\ "send_telegram_message" \in DOMAIN orch.skill_map
          /\ Len(orch.replies) = 3
          /\ orch.replies[3].error = ""
          /\ orch.replies[3].state = COMPLETED

C16_Witness ==
    /\ orch.pc = "done"
    /\ orch.telegram_url # NoUrl
    /\ served[TELEGRAM_PORT] # NoCard
    /\ "send_telegram_message" \notin DOMAIN orch.skill_map
    /\ orch.result.error = <<>>
    /\ orch.result.file_path \in DOMAIN files
    /\ Len(orch.sent) = 2

\* C17: the requests of a run are, in this order, at most one
\* fetch_week_events, one format_weekly_preview and one send_telegram_message;
\* each but the first follows a COMPLETED reply to the one before it; a file
\* is written only when every step of the run has returned.
StepOrder == <<"fetch_week_events", "format_weekly_preview", "send_telegram_message">>

C17_SequentialOnce ==
    /\ Len(orch.sent) <= Len(StepOrder)
    /\ Len(orch.replies) = Len(orch.sent)
    /\ \A i \in DOMAIN orch.sent :
         /\ orch.sent[i].action = StepOrder[i]
         /\ i > 1 => /\ orch.replies[i - 1].error = ""
                     /\ orch.replies[i - 1].state = COMPLETED
    /\ \A k \in DOMAIN saved :
         saved[k].replies = IF "send_telegram_message" \in DOMAIN discover(orch, served)
                            THEN 3 ELSE 2

C17_Witness ==
    /\ orch.pc = "done"
    /\ Len(orch.sent) = 3
    /\ orch.replies[3].state = COMPLETED
    /\ Len(saved) = 2
    /\ orch.result.telegram_sent

\* C18: every request of the workflow goes to the URL of the first
\* supported interface of the card that the skill map holds for its action.
C18_RoutedBySkill ==
    \A i \in DOMAIN orch.sent :
        /\ orch.sent[i].action \in DOMAIN orch.skill_map
        /\ orch.sent[i].agent_url = get_agent_url(orch.skill_map[orch.sent[i].action])

\* C19: in a bundle without an error the summary and the file's contents are
\* the text part of the formatter's first artifact, total_events is that of
\* the calendar artifact's data part, and the formatter was sent the events,
\* conflicts, total and busiest day of that data part.
C19_ResultFromArtifacts ==
    (orch.pc = "done" /\ orch.result.error = <<>>)
    => LET calendar == orch.replies[1].artifacts[1][1].data
           text == orch.replies[2].artifacts[1][1].text
           sent == orch.sent[2].parameters
       IN /\ orch.result.summary = text
          /\ files[orch.result.file_path] = text
          /\ orch.result.total_events = calendar.total_events
          /\ sent.events = calendar.events
          /\ sent.conflicts = calendar.conflicts
          /\ sent.total_events = calendar.total_events
          /\ sent.busiest_day = calendar.busiest_day

C19_Witness ==
    /\ orch.pc = "done"
    /\ orch.result.error = <<>>
    /\ orch.result.summary = "summary-b"
    /\ orch.result.total_events = 2
    /\ orch.sent[2].parameters.conflicts = "conflicts-b"
    /\ files[orch.result.file_path] = "summary-b"

\* C20: two save_summary calls for the same week start never use the same
\* path, and the file of each call keeps the contents that call wrote.
C20_NeverOverwritten ==
    /\ \A i, j \in DOMAIN saved :
         (i < j /\ saved[i].week_start = saved[j].week_start)
         => saved[i].file_path # saved[j].file_path
    /\ \A i \in DOMAIN saved : files[saved[i].file_path] = saved[i].summary

\* C24: every Transport Client call logs both directions: a send_message or
\* get_task call that has returned has appended an outgoing entry for the
\* request and an incoming entry for the response, whatever its outcome
\* (stated for a log directory that can be written).
C24_BothDirectionsLogged ==
    (client.pc = "done" /\ logdir = "writable") => client.logged = <<"outgoing", "incoming">>

\* C25: a failure while logging never leaves log_a2a_message: no Transport
\* Client call ends in an exception and no send-message handler answers
\* HTTP 500 because the log directory or the log file could not be written.
C25_LoggingNeverBreaks ==
    /\ client.pc # "raised"
    /\ \A h \in Handlers : handler[h].pc = "done" => handler[h].resp.http # 500

\* C22: for every input value each validate_* function returns a (valid flag,
\* description) pair and raises no exception.
C22_ValidatorsNeverRaise ==
    call.fn \in ValidatorNames => call.pc # "raised"

\* The fields the validation rules require of a Part.
RequiredOfPart(part) == {"type"} \cup (IF part.type = "text" THEN {"text"} ELSE {"data"})

\* The verdict is "invalid" and its description names field f.
Cites(result, f) == ~result.valid /\ result.raised = "" /\ f \in Range(result.err)

\* C23: every Part, Message, TaskStatus, Task, SendMessageRequest and
\* AgentCard built by the protocol constructors from valid inputs passes its
\* validate_* function, and with one required field removed it is reported
\* invalid with a description that names the removed field.
C23_RoundTrip ==
    LET i == call.input
        r == call.result
    IN call.pc \in {"returned", "raised"} =>
        /\ call.fn = "validate_part" =>
              /\ i \in BuiltParts => r.valid
              /\ \A e \in BuiltParts : \A f \in RequiredOfPart(e) :
                    i = Strip(e, {f}) => Cites(r, f)
        /\ call.fn = "validate_message" =>
              /\ i \in BuiltMessages => r.valid
              /\ \A e \in BuiltMessages : \A f \in {"message_id", "role", "parts"} :
                    i = Strip(e, {f}) => Cites(r, f)
        /\ call.fn = "validate_task_status" =>
              /\ i \in BuiltStatuses => r.valid
              /\ \A e \in BuiltStatuses : \A f \in {"state", "timestamp"} :
                    i = Strip(e, {f}) => Cites(r, f)
        /\ call.fn = "validate_task" =>
              /\ i \in BuiltTasks => r.valid
              /\ \A e \in BuiltTasks : \A f \in {"id", "context_id", "status"} :
                    i = Strip(e, {f}) => Cites(r, f)
        /\ call.fn = "validate_send_message_request" =>
              /\ i \in BuiltRequests => r.valid
              /\ \A e \in BuiltRequests :
                    i = [e EXCEPT !.msgTruthy = FALSE] => Cites(r, "message")
        /\ call.fn = "validate_agent_card" =>
              /\ i \in BuiltCards => r.valid
              /\ \A e \in BuiltCards :
                    /\ \A f \in {"name", "description", "version", "supported_interfaces", "skills"} :
                          i = Strip(e, {f}) => Cites(r, f)
                    /\ \A f \in Range(INTERFACE_FIELDS) :
                          i = StripEntry(e, "supported_interfaces", 1, f) => Cites(r, f)
                    /\ \A k \in 1..Len(e.skills.entries) : \A f \in Range(SKILL_FIELDS) :
                          i = StripEntry(e, "skills", k, f) => Cites(r, f)

C23_Witness ==
    /\ call.fn = "validate_task" /\ call.pc = "returned"
    /\ call.input = Strip(TaskDict(TaskStatusDict(COMPLETED, TRUE)), {"context_id"})
    /\ Cites(call.result, "context_id")

\* The first part of parts, from index i on, that validate_part reports
\* invalid; 0 when there is none.
RECURSIVE FirstInvalidPart(_, _)
FirstInvalidPart(parts, i) ==
    IF i > Len(parts) THEN 0
    ELSE IF ~validate_part(parts[i]).valid THEN i
    ELSE FirstInvalidPart(parts, i + 1)

\* s starts with the pieces of prefix.
StartsWith(s, prefix) == Len(s) >= Len(prefix) /\ SubSeq(s, 1, Len(prefix)) = prefix

\* C29: validate_message reports the first violation in the fixed order: not
\* an object, message_id missing, role not in {user, agent}, parts not a
\* non-empty list, then the invalid part with the smallest index i, whose
\* description starts with 'parts[i]: '; it returns valid exactly when none
\* of these violations exists.
C29_FirstViolationInOrder ==
    LET m == call.input
        r == call.result
        noRole == "role" \notin m.fields \/ m.role \notin Role
        noParts == "parts" \notin m.fields \/ ~m.partsIsList \/ Len(m.parts) = 0
    IN (call.fn = "validate_message" /\ call.pc \in {"returned", "raised"}) =>
        /\ call.pc = "returned"
        /\ IF ~m.isDict THEN ~r.valid /\ r.err = <<"Message must be a dict.">>
           ELSE IF "message_id" \notin m.fields THEN Cites(r, "message_id")
           ELSE IF noRole THEN Cites(r, "role")
           ELSE IF noParts THEN Cites(r, "parts") /\ ~StartsWith(r.err, <<"parts[">>)
           ELSE IF FirstInvalidPart(m.parts, 1) # 0
                THEN /\ ~r.valid
                     /\ StartsWith(r.err, <<"parts[", ToString(FirstInvalidPart(m.parts, 1) - 1), "]: ">>)
           ELSE r.valid

\* The cards of the outcomes, from index i on, that were reachable and whose
\* card passes validate_agent_card, in the order of the URLs.
RECURSIVE ValidCardsFrom(_, _)
ValidCardsFrom(outcomes, i) ==
    IF i > Len(outcomes) THEN <<>>
    ELSE (IF outcomes[i].kind = "ok" /\ validate_agent_card(outcomes[i].card).valid
          THEN <<outcomes[i].card>> ELSE <<>>) \o ValidCardsFrom(outcomes, i + 1)

\* C21: for every list of base URLs and every outcome per URL, discover_agents
\* raises no exception and returns exactly the cards of the URLs that were
\* reachable and whose card passed validate_agent_card, in the order of the
\* input URLs.
C21_DiscoverReturnsValidCards ==
    call.fn = "discover_agents" =>
        /\ call.pc # "raised"
        /\ call.pc = "returned" => call.result = ValidCardsFrom(call.input, 1)

\* C26: when several agent servers run in one process their task stores are
\* disjoint: a step of a send-message handler changes only the store of the
\* agent that handles the request, and a task id in one agent's store gets
\* 404 TaskNotFoundError from every other agent's get-task.
C26_DisjointStores ==
    [][/\ \A a \in Agents : \A b \in Agents \ {a} :
            /\ _tasks[a] \cap _tasks[b] = {}
            /\ \A id \in _tasks[a] :
                  /\ get_task(b, id) = ErrorResp(404, "TaskNotFoundError")
                  /\ (getResp'.agent = b /\ getResp'.id = id)
                     => getResp'.resp = ErrorResp(404, "TaskNotFoundError")
       /\ \A h \in Handlers :
            handler'[h] # handler[h] =>
              \A b \in Agents \ {handler'[h].agent, handler[h].agent} : _tasks'[b] = _tasks[b]
       /\ \A a \in Agents : \A id \in _tasks'[a] \ _tasks[a] :
            \E h \in Handlers : handler'[h].agent = a /\ handler'[h].task = id]_vars

C26_Witness ==
    /\ _tasks["calendar"] = {1}
    /\ _tasks["formatter"] = {2}
    /\ getResp.agent = "formatter" /\ getResp.id = 1
    /\ getResp.resp = ErrorResp(404, "TaskNotFoundError")

\* The request's parameters are an object whose 'text' is empty or missing.
NoText(message) ==
    LET params == _extract_params(message) IN
    params.kind = "dict" /\ params.text = ""

\* C27: a request to the Telegram agent whose parameters have an empty or
\* missing 'text' is answered HTTP 200 with the task FAILED, and the delivery
\* collaborator's send is never invoked.
C27_NoTextNeverSent ==
    \A h \in Handlers :
        (handler[h].agent = "telegram" /\ handler[h].task # 0 /\ NoText(handler[h].req.message))
        => /\ ~handler[h].invoked
           /\ handler[h].pc \in {"stored", "working", "done"}
           /\ Answered(h) => /\ handler[h].resp.http = 200
                             /\ handler[h].resp.task.status.state = FAILED
                             /\ handler[h].resp.task.artifacts = <<>>

C27_Witness ==
    \E h \in Handlers :
        /\ Answered(h) /\ handler[h].agent = "telegram"
        /\ handler[h].req.message = MsgParams("m-notext", ParamsDict(""), "")
        /\ handler[h].resp.task.status.state = FAILED
        /\ "No text provided to send" \in Range(handler[h].resp.task.status.text)

Conflicting(r1, r2) ==
    /\ ~r1.all_day /\ ~r2.all_day
    /\ r1.date = r2.date
    /\ r1.label = r2.label
    /\ (r1.start .. (r1.start + r1.total_minutes - 1))
         \cap (r2.start .. (r2.start + r2.total_minutes - 1)) # {}

ConflictingPairs(raw) ==
    {p \in SUBSET DOMAIN raw :
        /\ Cardinality(p) = 2
        /\ \E i \in p : \E j \in p : i # j /\ Conflicting(raw[i], raw[j])}

\* C30: for the merged, sorted list fetch_week_events builds, the conflicts
\* returned are exactly one entry for each unordered pair of timed events of
\* the same date and source label whose intervals [start, start + duration)
\* intersect, and no entry for any other pair (so none for adjacent events and
\* none lost by the break at the first differing date).
C30_OneEntryPerConflictingPair ==
    (call.fn = "fetch_week_events" /\ call.pc = "returned") =>
        LET reported == call.result.conflicts
            pairs == ConflictingPairs(call.input)
        IN /\ Len(reported) = Cardinality(pairs)
           /\ {Range(reported[k].events) : k \in DOMAIN reported}
                = {{"Event " \o ToString(i) : i \in p} : p \in pairs}

\* C31: every event that takes part in a conflict the Calendar agent detected
\* is rendered by the Formatter with the conflict warning on its line.
C31_ConflictsAreMarked ==
    (call.fn = "fetch_week_events" /\ call.pc = "formatted") =>
        \A k \in DOMAIN call.result.conflicts :
            \A title \in Range(call.result.conflicts[k].events) :
                \E n \in DOMAIN call.preview.formatted_summary :
                    /\ call.preview.formatted_summary[n].title = title
                    /\ call.preview.formatted_summary[n].warning

\* C32: the merged list is in non-decreasing date order, and within a date
\* every all-day event precedes every timed event and timed events are in
\* non-decreasing start time.
C32_MergedListOrdered ==
    (call.fn = "fetch_week_events" /\ call.pc = "returned") =>
        LET events == call.result.events IN
        \A i \in DOMAIN events : \A j \in DOMAIN events :
            i < j =>
                /\ events[i].date <= events[j].date
                /\ events[i].date = events[j].date =>
                      /\ ~(~events[i].is_all_day /\ events[j].is_all_day)
                      /\ (~events[i].is_all_day /\ ~events[j].is_all_day)
                            => strptime(events[i].time) <= strptime(events[j].time)

\* The number of events of a list on a day, and the place of the first one.
EventsOn(events, day) == {i \in DOMAIN events : events[i].day = day}
FirstOn(events, day) == CHOOSE i \in EventsOn(events, day) : \A k \in EventsOn(events, day) : i <= k

\* day is a day of the list with the most events and, of those, the one whose
\* first event comes earliest; "" for the empty list.
IsBusiest(events, day) ==
    IF events = <<>> THEN day = ""
    ELSE /\ EventsOn(events, day) # {}
         /\ \A i \in DOMAIN events :
               LET other == events[i].day IN
               /\ Cardinality(EventsOn(events, other)) <= Cardinality(EventsOn(events, day))
               /\ Cardinality(EventsOn(events, other)) = Cardinality(EventsOn(events, day))
                     => FirstOn(events, day) <= FirstOn(events, other)

DaysFrom(a, b) == toordinal(b) - toordinal(a)

\* C34: calculate_week_range(next_week=False) returns a Monday with
\* monday <= today <= sunday and sunday = monday + 6 days; with
\* next_week=True both bounds are exactly 7 days later.
C34_WeekRange ==
    (call.fn = "calculate_week_range" /\ call.pc = "returned") =>
        LET monday == call.result[1]
            sunday == call.result[2]
            shift == IF call.next_week THEN 7 ELSE 0
        IN /\ weekday(monday) = 0
           /\ DaysFrom(monday, sunday) = 6
           /\ DaysFrom(monday, call.today) + shift \in 0..6
           /\ weekday(call.today) = 0 => DaysFrom(call.today, monday) = shift
           /\ weekday(call.today) = 6 => DaysFrom(monday, call.today) + shift = 6
           /\ call.result = <<plus_days(calculate_week_range_on(call.today, FALSE)[1], shift),
                              plus_days(calculate_week_range_on(call.today, FALSE)[2], shift)>>

\* Today is a Sunday and the week asked for starts in another year than it
\* ends.
C34_Witness ==
    /\ call.fn = "calculate_week_range" /\ call.pc = "returned"
    /\ weekday(call.today) = 6
    /\ call.result[1].year # call.result[2].year

C36_CompletedHoldsArtifact ==
    /\ \A a \in Agents : \A id \in _tasks[a] :
          get_task(a, id).task.status.state = COMPLETED
             => Len(get_task(a, id).task.artifacts) = 1
    /\ (getResp # NoGet /\ getResp.resp.http = 200
        /\ getResp.resp.task.status.state = COMPLETED)
          => Len(getResp.resp.task.artifacts) = 1

\* A get-task is served between the two writes: the artifact is attached and
\* the task is still WORKING.
C36_Witness ==
    \E h \in Handlers :
        /\ handler[h].pc = "artifact"
        /\ getResp.id = handler[h].task /\ getResp.agent = handler[h].agent
        /\ getResp.resp.http = 200
        /\ getResp.resp.task.status.state = WORKING
        /\ Len(getResp.resp.task.artifacts) = 1

\* C39: timeouts and other transport failures of one call count on one
\* counter (at most max_retries + 1 attempts in all), the sleep after the
\* attempt with loop index k is 2^(k+1) whatever its failure was, and the
\* error code is that of the last attempt alone: TimeoutError if it timed out,
\* RequestFailedError otherwise.
C39_MixedFailures ==
    /\ Len(client.attempts) <= client.max_retries + 1
    /\ client.pc = "attempt" => client.attempt = Len(client.attempts)
    /\ client.pc = "sleep" => client.attempt = Len(client.attempts) - 1
    /\ \A k \in DOMAIN client.sleeps :
          /\ k <= Len(client.attempts)
          /\ client.attempts[k].kind \in {"timeout", "failed"}
          /\ client.sleeps[k] = 2 ^ ((k - 1) + 1)
    /\ (client.pc = "done" /\ client.attempts # <<>> /\ LastAttempt.kind # "ok")
          => /\ Len(client.attempts) = client.max_retries + 1
             /\ client.result = ErrorResult(IF LastAttempt.kind = "timeout"
                                            THEN ERROR_TIMEOUT ELSE ERROR_REQUEST_FAILED)

\* A call with max_retries = 2 fails by timeout, by a connection failure and
\* by timeout again, or the other way round.
C39_Witness ==
    /\ client.pc = "done"
    /\ client.max_retries = 2
    /\ client.sleeps = <<2, 4>>
    /\ \/ /\ client.attempts = <<[kind |-> "timeout", body |-> ""], [kind |-> "failed", body |-> ""],
                                 [kind |-> "timeout", body |-> ""]>>
          /\ client.result = ErrorResult(ERROR_TIMEOUT)
       \/ /\ client.attempts = <<[kind |-> "failed", body |-> ""], [kind |-> "timeout", body |-> ""],
                                 [kind |-> "failed", body |-> ""]>>
          /\ client.result = ErrorResult(ERROR_REQUEST_FAILED)

\* A request with the "action" strings of its parts blanked.
WithoutAction(r) ==
    [r EXCEPT !.message.parts = [i \in DOMAIN @ |-> [@[i] EXCEPT !.data.action = ""]]]
ActionsOf(r) == {r.message.parts[i].data.action : i \in DOMAIN r.message.parts}

\* C38: two answered requests to one agent that differ in the "action" string
\* only, and whose collaborator call (if both make one) ends the same way,
\* leave their tasks in the same state with the same status text and the same
\* artifact, after the same call of the collaborator with the same parameters.
C38_ActionIgnored ==
    \A h1 \in Handlers : \A h2 \in Handlers :
        (/\ Answered(h1) /\ Answered(h2)
         /\ handler[h1].agent = handler[h2].agent
         /\ WithoutAction(handler[h1].req) = WithoutAction(handler[h2].req)
         /\ (handler[h1].invoked /\ handler[h2].invoked)
               => /\ handler[h1].result = handler[h2].result
                  /\ handler[h1].exc = handler[h2].exc)
        => /\ handler[h1].invoked = handler[h2].invoked
           /\ handler[h1].params = handler[h2].params
           /\ handler[h1].resp.http = handler[h2].resp.http
           /\ handler[h1].resp.task.status = handler[h2].resp.task.status
           /\ handler[h1].resp.task.artifacts = handler[h2].resp.task.artifacts

\* The Calendar agent has answered its own skill id and a string no agent
\* advertises, both with a COMPLETED task.
C38_Witness ==
    /\ Answered("h1") /\ Answered("h2")
    /\ handler["h1"].agent = "calendar" /\ handler["h2"].agent = "calendar"
    /\ WithoutAction(handler["h1"].req) = WithoutAction(handler["h2"].req)
    /\ "fetch_week_events" \in ActionsOf(handler["h1"].req)
    /\ "drop_all_tasks" \in ActionsOf(handler["h2"].req)
    /\ handler["h1"].resp.task.status.state = COMPLETED
    /\ handler["h2"].resp.task.status.state = COMPLETED
    /\ Len(handler["h2"].resp.task.artifacts) = 1

\* The tasks in the stores of the agents.
StoredTasks == UNION {_tasks[a] : a \in Agents}

\* C37: the server creates one task with a new id for every attempt of a
\* send_message call that it receives, whatever became of the earlier
\* attempts and although all of them carry one message_id; the call creates
\* at most max_retries + 1 tasks, and exactly one when its first attempt
\* succeeds.
C37_TaskPerAttempt ==
    /\ [](/\ client.pc # "idle" =>
               /\ Cardinality(StoredTasks)
                     <= Len(client.attempts) + (IF client.pc = "attempt" THEN 1 ELSE 0)
               /\ Cardinality(StoredTasks) <= client.max_retries + 1
          /\ \A id \in StoredTasks :
               heap[id].history[1].message_id = RetryRequest.message.message_id
          /\ (client.attempts # <<>> /\ client.attempts[1].kind = "ok")
               => /\ client.pc = "done"
                  /\ StoredTasks = {1})
    /\ [][\A h \in Handlers :
            (handler[h].pc = "idle" /\ handler'[h].pc # "idle")
               => /\ handler'[h].task = nextId
                  /\ nextId \notin StoredTasks
                  /\ nextId' = nextId + 1
                  /\ StoredTasks' = StoredTasks \cup {nextId}
                  /\ heap'[nextId].status.state = SUBMITTED]_vars

\* The first attempt timed out and the server went on to finish its task; the
\* retry got a second task for the same message.
C37_Witness ==
    /\ Len(client.attempts) = 2
    /\ client.attempts[1].kind = "timeout" /\ client.attempts[1].task = 1
    /\ client.attempts[2].kind = "ok" /\ client.attempts[2].task = 2
    /\ StoredTasks = {1, 2}
    /\ heap[1].status.state = COMPLETED
    /\ heap[2].status.state = COMPLETED
    /\ heap[1].history[1].message_id = heap[2].history[1].message_id

====
